---- MODULE Spec2Model ----
(***************************************************************************)
(* State-machine model of the thanos-operator reconciliation core:         *)
(* ThanosQueryReconciler (Reconcile, syncResources, buildQuerier,          *)
(* getStoreAPIServiceEndpoints, buildQueryFrontend, the service watch      *)
(* predicate and enqueueForService, getServiceTypeFromLabel) and           *)
(* ThanosStoreReconciler (Reconcile, syncResources, buildStore).           *)
(***************************************************************************)
EXTENDS Integers, Sequences, FiniteSets, TLC

VARIABLES
    queries,    \* ThanosQuery resources in the cluster: key -> spec or NoObj
    stores,     \* ThanosStore resources in the cluster: key -> spec or NoObj
    services,   \* dependency Services (StoreAPI candidates): key -> object or NoObj
    objects,    \* child objects written by the sync loop: key -> object or NoObj
    metrics,    \* the prometheus counters of both reconcilers
    last,       \* record of the most recent Reconcile invocation
    lastWatch,  \* record of the most recent Service watch event
    envSteps,   \* steps the environment has taken
    meta,       \* ObjectMeta handed to getServiceTypeFromLabel
    etype,      \* EndpointType it returned
    workqueue,  \* the work queue of the ThanosQuery controller
    inflight    \* per worker, the Reconcile invocation it is running

vars == <<queries, stores, services, objects, metrics, last, lastWatch, envSteps,
          meta, etype, workqueue, inflight>>

----------------------------------------------------------------------------
(* Bounds of the model *)

\* Reconcile invocations per behaviour
MaxPasses == 2
\* workers of a controller
MaxConcurrentReconciles == 2
\* steps of the environment (spec edits, drift of child objects, Service events)
\* per behaviour
MaxEnvSteps == 1

----------------------------------------------------------------------------
(* Labels, selectors *)

NoObj == [exists |-> FALSE]

\* Op applied to the value of v, v being evaluated once
With(v, Op(_)) == CHOOSE r \in {Op(x) : x \in {v}} : TRUE

DefaultStoreAPILabel == "operator.thanos.io/store-api"
DefaultStoreAPIValue == "true"
PartOfLabel == "app.kubernetes.io/part-of"
DefaultPartOfLabel == "thanos"

RegularLabel == "operator.thanos.io/endpoint"
StrictLabel == "operator.thanos.io/endpoint-strict"
GroupLabel == "operator.thanos.io/endpoint-group"
GroupStrictLabel == "operator.thanos.io/endpoint-group-strict"

TierLabel == "tier"

requiredStoreServiceLabels ==
    (DefaultStoreAPILabel :> DefaultStoreAPIValue) @@ (PartOfLabel :> DefaultPartOfLabel)

EmptyLabels == [k \in {} |-> "true"]

\* every label map whose keys are among K and whose values are among V
LabelMaps(K, V) == UNION {[D -> V] : D \in SUBSET K}

\* the union of two label maps, the first winning on a common key
Merged(a, b) == a @@ b

\* metav1.HasLabel: the key is present, whatever its value
HasLabel(objMeta, label) == label \in DOMAIN objMeta.Labels

getServiceTypeFromLabelGroupFirst(objMeta) ==
    IF HasLabel(objMeta, StrictLabel) THEN StrictLabel
    ELSE IF HasLabel(objMeta, GroupLabel) THEN GroupLabel
    ELSE IF HasLabel(objMeta, GroupStrictLabel) THEN GroupStrictLabel
    ELSE RegularLabel

getServiceTypeFromLabel(objMeta) ==
    IF HasLabel(objMeta, StrictLabel) THEN StrictLabel
    ELSE IF HasLabel(objMeta, GroupStrictLabel) THEN GroupStrictLabel
    ELSE IF HasLabel(objMeta, GroupLabel) THEN GroupLabel
    ELSE RegularLabel

----------------------------------------------------------------------------
(* Label selectors: metav1.LabelSelector and labels.Selector *)

NilSelector == [nil |-> TRUE, MatchLabels |-> EmptyLabels, MatchExpressions |-> <<>>]

LabelSelector(ml, exprs) == [nil |-> FALSE, MatchLabels |-> ml, MatchExpressions |-> exprs]

Requirement(k, op, vals) == [key |-> k, operator |-> op, values |-> vals]

SelectorOperators == {"In", "NotIn", "Exists", "DoesNotExist"}

\* metav1.LabelSelectorAsSelector rejects an unknown operator, In/NotIn without
\* values and Exists/DoesNotExist with values
ValidRequirement(r) ==
    /\ r.operator \in SelectorOperators
    /\ r.operator \in {"In", "NotIn"} => r.values # {}
    /\ r.operator \in {"Exists", "DoesNotExist"} => r.values = {}

LabelRequirements(ml) == {Requirement(k, "In", {ml[k]}) : k \in DOMAIN ml}

\* metav1.LabelSelectorAsSelector
LabelSelectorAsSelector(ps) ==
    LET exprs == {ps.MatchExpressions[i] : i \in 1..Len(ps.MatchExpressions)}
    IN  IF \E r \in exprs : ~ValidRequirement(r)
        THEN [err |-> TRUE, requirements |-> {}]
        ELSE [err |-> FALSE, requirements |-> LabelRequirements(ps.MatchLabels) \cup exprs]

\* manifests.BuildLabelSelectorFrom: the override selector AND the required labels
BuildLabelSelectorFrom(labelSelector, required) ==
    LET selector == LabelSelectorAsSelector(labelSelector)
    IN  IF selector.err THEN selector
        ELSE [selector EXCEPT !.requirements = @ \cup LabelRequirements(required)]

RequirementMatches(r, ls) ==
    CASE r.operator = "In" -> r.key \in DOMAIN ls /\ ls[r.key] \in r.values
      [] r.operator = "NotIn" -> ~(r.key \in DOMAIN ls /\ ls[r.key] \in r.values)
      [] r.operator = "Exists" -> r.key \in DOMAIN ls
      [] r.operator = "DoesNotExist" -> r.key \notin DOMAIN ls
      [] OTHER -> FALSE

\* labels.Selector.Matches
Matches(selector, ls) == \A r \in selector.requirements : RequirementMatches(r, ls)

----------------------------------------------------------------------------
(* Services and endpoints *)

GRPCPort == 10901

\* a Service: its namespace and name, labels, whether it has a port named grpc,
\* and metadata.generation
Service(ns, name, ls, grpc, gen) ==
    [exists |-> TRUE, Namespace |-> ns, Name |-> name, Labels |-> ls,
     grpc |-> grpc, Generation |-> gen]

\* manifests.IsGrpcServiceWithLabels: the object carries the labels and exposes the
\* gRPC port
IsGrpcServiceWithLabels(obj, required) ==
    [ok |-> /\ \A k \in DOMAIN required :
                  k \in DOMAIN obj.Labels /\ obj.Labels[k] = required[k]
            /\ obj.grpc,
     port |-> GRPCPort]

ZeroEndpoint == [ServiceName |-> "", Port |-> 0, Namespace |-> "", Type |-> ""]

Endpoint(svc, port, t) ==
    [ServiceName |-> svc.Name, Port |-> port, Namespace |-> svc.Namespace, Type |-> t]

EndpointTypes == {RegularLabel, StrictLabel, GroupLabel, GroupStrictLabel}

----------------------------------------------------------------------------
(* The cluster: resource identities *)

QueryName == "thanos-query"
StoreName == "thanos-store"

QueryKeys == {<<"ns-a", "q1">>, <<"ns-a", "q2">>, <<"ns-b", "q1">>}
StoreKeys == {<<"ns-a", "st1">>}

\* reconcile.Request for a resource identity
Request(key) == [Namespace |-> key[1], Name |-> key[2]]

\* the ThanosQuery identities the scheduler delivers to Reconcile
ReconciledQueries == {<<"ns-a", "q1">>, <<"ns-a", "q2">>}

\* the Services of the cluster, in the order a listing returns them
ServiceOrder == << <<"ns-a", "svc-1">>, <<"ns-a", "svc-2">>, <<"ns-b", "svc-1">> >>
ServiceKeys == {ServiceOrder[i] : i \in 1..Len(ServiceOrder)}

\* ThanosQuery: Spec.Paused (*bool: "nil", "true", "false"), Spec.StoreLabelSelector,
\* Spec.QueryFrontend (nil or present) and the remaining spec fields as one revision
ThanosQuery(paused, sel, frontend, rev) ==
    [exists |-> TRUE, Paused |-> paused, StoreLabelSelector |-> sel,
     QueryFrontend |-> frontend, Rev |-> rev]

\* ThanosStore: Spec.Paused, Spec.StorageSize (does it parse as a quantity),
\* Spec.ShardingStrategy.Shards and the remaining spec fields as one revision
ThanosStore(paused, sizeOk, shards, rev) ==
    [exists |-> TRUE, Paused |-> paused, StorageSizeParses |-> sizeOk,
     Shards |-> shards, Rev |-> rev]

----------------------------------------------------------------------------
(* Endpoint Discoverer *)

\* client.List with MatchingLabelsSelector and InNamespace
ListServices(svcs, selector, ns) ==
    SelectSeq(ServiceOrder,
              LAMBDA k : /\ svcs[k].exists
                         /\ k[1] = ns
                         /\ Matches(selector, svcs[k].Labels))

\* the loop without the gRPC port check: an endpoint for every listed service
EndpointsOfAllListed(svcs, items) ==
    [i \in 1..Len(items) |->
        Endpoint(svcs[items[i]], GRPCPort, getServiceTypeFromLabel(svcs[items[i]]))]

\* the loop of getStoreAPIServiceEndpoints over the listed services
EndpointsOf(svcs, items) ==
    [i \in 1..Len(items) |->
        LET svc == svcs[items[i]]
            res == IsGrpcServiceWithLabels(svc, requiredStoreServiceLabels)
        IN  IF ~res.ok THEN ZeroEndpoint
            ELSE Endpoint(svc, res.port, getServiceTypeFromLabel(svc))]

\* the EndpointsConfigured increments of that loop, one per endpoint produced
EndpointTypesCounted(svcs, items) ==
    LET valid == SelectSeq(items,
                   LAMBDA k : IsGrpcServiceWithLabels(svcs[k], requiredStoreServiceLabels).ok)
    IN  [i \in 1..Len(valid) |-> getServiceTypeFromLabel(svcs[valid[i]])]

Event(t, reason) == [type |-> t, reason |-> reason]

\* getStoreAPIServiceEndpoints that treats an empty listing as a failed one
getStoreAPIServiceEndpointsZeroIsError(query, ns, svcs, listErr) ==
    LET labelSelector == BuildLabelSelectorFrom(query.StoreLabelSelector,
                                                requiredStoreServiceLabels)
        items == ListServices(svcs, labelSelector, ns)
    IN  IF labelSelector.err
        THEN [err |-> "selector", listed |-> FALSE, items |-> <<>>, endpoints |-> <<>>,
              counted |-> <<>>, events |-> <<>>]
        ELSE IF listErr \/ Len(items) = 0
        THEN [err |-> "list", listed |-> TRUE, items |-> <<>>, endpoints |-> <<>>,
              counted |-> <<>>, events |-> <<>>]
        ELSE [err |-> "nil", listed |-> TRUE, items |-> items,
              endpoints |-> EndpointsOf(svcs, items),
              counted |-> EndpointTypesCounted(svcs, items), events |-> <<>>]

\* getStoreAPIServiceEndpoints: err is "nil", "selector" or "list"
getStoreAPIServiceEndpoints(query, ns, svcs, listErr) ==
    LET labelSelector == BuildLabelSelectorFrom(query.StoreLabelSelector,
                                                requiredStoreServiceLabels)
        items == ListServices(svcs, labelSelector, ns)
    IN  IF labelSelector.err
        THEN [err |-> "selector", listed |-> FALSE, items |-> <<>>, endpoints |-> <<>>,
              counted |-> <<>>, events |-> <<>>]
        ELSE IF listErr
        THEN [err |-> "list", listed |-> TRUE, items |-> <<>>, endpoints |-> <<>>,
              counted |-> <<>>, events |-> <<>>]
        ELSE IF Len(items) = 0
        THEN [err |-> "nil", listed |-> TRUE, items |-> items, endpoints |-> <<>>,
              counted |-> <<>>,
              events |-> <<Event("Warning", "NoEndpointsFound")>>]
        ELSE [err |-> "nil", listed |-> TRUE, items |-> items,
              endpoints |-> EndpointsOf(svcs, items),
              counted |-> EndpointTypesCounted(svcs, items), events |-> <<>>]

----------------------------------------------------------------------------
(* Desired-State Builder *)

\* a desired object as the manifest package returns it: kind, name and the fields
\* the options determine
Desired(kind, name, rev, args) ==
    [kind |-> kind, name |-> name, content |-> [rev |-> rev, args |-> args]]

\* manifestquery.BuildQuery
BuildQuery(opts) ==
    << Desired("ServiceAccount", opts.Name, opts.Rev, <<>>),
       Desired("Deployment", opts.Name, opts.Rev, opts.Endpoints),
       Desired("Service", opts.Name, opts.Rev, <<>>) >>

\* manifestqueryfrontend.BuildQueryFrontend
BuildQueryFrontend(opts) ==
    << Desired("ServiceAccount", opts.Name, opts.Rev, <<>>),
       Desired("Deployment", opts.Name, opts.Rev, <<opts.QueryService>>),
       Desired("Service", opts.Name, opts.Rev, <<>>) >>

ShardSuffix == <<"-shard-0", "-shard-1", "-shard-2">>

\* manifestsstore.BuildStores: a ServiceAccount, and a StatefulSet and a Service per
\* shard
BuildStores(opts) ==
    << Desired("ServiceAccount", opts.Name, opts.Rev, <<>>) >>
    \o [i \in 1..(2 * opts.Shards) |->
          IF i % 2 = 1
          THEN Desired("StatefulSet", opts.Name \o ShardSuffix[(i + 1) \div 2], opts.Rev, <<>>)
          ELSE Desired("Service", opts.Name \o ShardSuffix[i \div 2], opts.Rev, <<>>)]

\* buildQuerier with the error of the endpoint discovery dropped: the querier is
\* built with the endpoints found so far
buildQuerierIgnoreErr(query, key, svcs, listErr) ==
    LET ep == getStoreAPIServiceEndpoints(query, key[1], svcs, listErr)
    IN  [err |-> "nil",
         objs |-> BuildQuery([Name |-> key[2], Rev |-> query.Rev,
                              Endpoints |-> ep.endpoints]),
         ep |-> ep]

buildQuerier(query, key, svcs, listErr) ==
    LET ep == getStoreAPIServiceEndpoints(query, key[1], svcs, listErr)
    IN  IF ep.err # "nil"
        THEN [err |-> ep.err, objs |-> <<>>, ep |-> ep]
        ELSE [err |-> "nil",
              objs |-> BuildQuery([Name |-> key[2], Rev |-> query.Rev,
                                   Endpoints |-> ep.endpoints]),
              ep |-> ep]

buildQueryFrontend(query, key) ==
    BuildQueryFrontend([Name |-> key[2] \o "-frontend", Rev |-> query.Rev,
                        QueryService |-> key[2]])

buildStore(store, key) ==
    BuildStores([Name |-> key[2], Rev |-> store.Rev, Shards |-> store.Shards])

----------------------------------------------------------------------------
(* Sync protocol *)

ClusterScopedKinds == {"ClusterRole", "ClusterRoleBinding"}

\* manifests.IsNamespacedResource
IsNamespacedResource(obj) == obj.kind \notin ClusterScopedKinds

NoOwner == <<"", "", "">>

ChildKey(kind, ns, name) == <<kind, ns, name>>

\* manifests.MutateFuncFor: the desired owner reference and spec are written onto
\* the observed object, whose other (server- and cluster-managed) fields stay
MutateFuncFor(existing, desired) ==
    [existing EXCEPT !.owner = desired.owner, !.content = desired.content]

\* outcomes of the calls one loop iteration makes, chosen by the environment
Outcomes == {"ok", "ownerErr", "apiErr"}

FailedOps == {"ownerErr", "apiErr"}

\* one iteration of the loop of syncResources: SetNamespace and
\* SetControllerReference for a namespaced object, then ctrl.CreateOrUpdate
SyncOneAlwaysUpdate(owner, obj, cl, outcome) ==
    LET namespaced == IsNamespacedResource(obj)
        key == ChildKey(obj.kind, IF namespaced THEN owner[2] ELSE "", obj.name)
        desired == [exists |-> TRUE, owner |-> IF namespaced THEN owner ELSE NoOwner,
                    content |-> obj.content, managed |-> "unset"]
    IN  IF namespaced /\ outcome = "ownerErr"
        THEN [key |-> key, op |-> "ownerErr", cl |-> cl]
        ELSE IF outcome = "apiErr"
        THEN [key |-> key, op |-> "apiErr", cl |-> cl]
        ELSE IF ~cl[key].exists
        THEN [key |-> key, op |-> "created", cl |-> [cl EXCEPT ![key] = desired]]
        ELSE [key |-> key, op |-> "updated",
              cl |-> [cl EXCEPT ![key] = MutateFuncFor(cl[key], desired)]]

\* the loop iteration with the result of SetControllerReference ignored: the
\* object goes to ctrl.CreateOrUpdate without the owner reference
SyncOneIgnoreOwnerErr(owner, obj, cl, outcome) ==
    LET namespaced == IsNamespacedResource(obj)
        key == ChildKey(obj.kind, IF namespaced THEN owner[2] ELSE "", obj.name)
        owned == namespaced /\ outcome # "ownerErr"
        desired == [exists |-> TRUE, owner |-> IF owned THEN owner ELSE NoOwner,
                    content |-> obj.content, managed |-> "unset"]
    IN  IF outcome = "apiErr"
        THEN [key |-> key, op |-> "apiErr", cl |-> cl]
        ELSE IF ~cl[key].exists
        THEN [key |-> key, op |-> "created", cl |-> [cl EXCEPT ![key] = desired]]
        ELSE IF MutateFuncFor(cl[key], desired) = cl[key]
        THEN [key |-> key, op |-> "unchanged", cl |-> cl]
        ELSE [key |-> key, op |-> "updated",
              cl |-> [cl EXCEPT ![key] = MutateFuncFor(cl[key], desired)]]

\* the loop iteration that creates a missing object and leaves an existing one
\* as it is
SyncOneCreateOnly(owner, obj, cl, outcome) ==
    LET namespaced == IsNamespacedResource(obj)
        key == ChildKey(obj.kind, IF namespaced THEN owner[2] ELSE "", obj.name)
        desired == [exists |-> TRUE, owner |-> IF namespaced THEN owner ELSE NoOwner,
                    content |-> obj.content, managed |-> "unset"]
    IN  IF namespaced /\ outcome = "ownerErr"
        THEN [key |-> key, op |-> "ownerErr", cl |-> cl]
        ELSE IF outcome = "apiErr"
        THEN [key |-> key, op |-> "apiErr", cl |-> cl]
        ELSE IF ~cl[key].exists
        THEN [key |-> key, op |-> "created", cl |-> [cl EXCEPT ![key] = desired]]
        ELSE [key |-> key, op |-> "unchanged", cl |-> cl]

SyncOne(owner, obj, cl, outcome) ==
    LET namespaced == IsNamespacedResource(obj)
        key == ChildKey(obj.kind, IF namespaced THEN owner[2] ELSE "", obj.name)
        desired == [exists |-> TRUE, owner |-> IF namespaced THEN owner ELSE NoOwner,
                    content |-> obj.content, managed |-> "unset"]
    IN  IF namespaced /\ outcome = "ownerErr"
        THEN [key |-> key, op |-> "ownerErr", cl |-> cl]
        ELSE IF outcome = "apiErr"
        THEN [key |-> key, op |-> "apiErr", cl |-> cl]
        ELSE IF ~cl[key].exists
        THEN [key |-> key, op |-> "created", cl |-> [cl EXCEPT ![key] = desired]]
        ELSE IF MutateFuncFor(cl[key], desired) = cl[key]
        THEN [key |-> key, op |-> "unchanged", cl |-> cl]
        ELSE [key |-> key, op |-> "updated",
              cl |-> [cl EXCEPT ![key] = MutateFuncFor(cl[key], desired)]]

\* what the loop has done after some iterations
LoopState(cl, ops, errCount) == [cl |-> cl, ops |-> ops, errCount |-> errCount]

\* the loop state after one more iteration
LoopStep(acc, r) ==
    LoopState(r.cl, Append(acc.ops, [key |-> r.key, op |-> r.op]),
              acc.errCount + (IF r.op \in FailedOps THEN 1 ELSE 0))

RECURSIVE SyncFromAbortOnError(_, _, _, _, _)
\* the loop of syncResources with a break at the first failure
SyncFromAbortOnError(owner, objs, plan, i, acc) ==
    IF i > Len(objs) \/ acc.errCount > 0 THEN acc
    ELSE SyncFromAbortOnError(owner, objs, plan, i + 1,
                              LoopStep(acc, SyncOne(owner, objs[i], acc.cl, plan[i])))

RECURSIVE SyncFrom(_, _, _, _, _)
\* the loop of syncResources from object i on: every object in turn, errCount
\* (an int32) counting the failures
SyncFrom(owner, objs, plan, i, acc) ==
    IF i > Len(objs) THEN acc
    ELSE SyncFrom(owner, objs, plan, i + 1,
                  LoopStep(acc, SyncOne(owner, objs[i], acc.cl, plan[i])))

SyncLoop(owner, objs, plan, cl0) == SyncFrom(owner, objs, plan, 1, LoopState(cl0, <<>>, 0))

----------------------------------------------------------------------------
(* Reconciliation Engine *)

\* failing calls per pass the environment may choose
MaxFailures == 2

NoErr == [kind |-> "nil", count |-> 0]
Err(kind) == [kind |-> kind, count |-> 0]
\* the aggregate error with the count of failures lost
AggregateErrOne(n) == [kind |-> "aggregate", count |-> 1]

AggregateErr(n) == [kind |-> "aggregate", count |-> n]

\* the outcomes of the n loop iterations of one pass
PlanSet(n) ==
    UNION { {[i \in 1..n |-> IF i \in F THEN k[i] ELSE "ok"] : k \in [F -> FailedOps]} :
            F \in {S \in SUBSET (1..n) : Cardinality(S) <= MaxFailures} }

Inc(m, counter, label, d) == [m EXCEPT ![counter][label] = @ + d]

RECURSIVE CountEndpoints(_, _, _)
\* EndpointsConfigured.WithLabelValues(etype, name, namespace).Inc() per endpoint
CountEndpoints(m, key, counted) ==
    IF counted = <<>> THEN m
    ELSE CountEndpoints(
            [m EXCEPT !.EndpointsConfigured[<<Head(counted), key>>] = @ + 1],
            key, Tail(counted))

NoEndpoints ==
    [err |-> "nil", listed |-> FALSE, items |-> <<>>, endpoints |-> <<>>,
     counted |-> <<>>, events |-> <<>>]

QueryOwner(key) == <<"ThanosQuery", key[1], key[2]>>
StoreOwner(key) == <<"ThanosStore", key[1], key[2]>>

\* the desired objects of a ThanosQuery, given the objects buildQuerier returned
QueryObjects(query, key, querierObjs) ==
    querierObjs \o (IF query.QueryFrontend THEN buildQueryFrontend(query, key) ELSE <<>>)

\* syncResources after buildQuerier returned b without an error: the frontend
\* objects are appended and the loop runs
syncBuiltQuery(query, key, cl, plan, b) ==
    LET objs == QueryObjects(query, key, b.objs)
        Result(loop) ==
            [err |-> IF loop.errCount > 0 THEN AggregateErr(loop.errCount) ELSE NoErr,
             ep |-> b.ep,
             events |-> b.ep.events \o
                        (IF query.QueryFrontend
                         THEN <<Event("Normal", "BuildingQueryFrontend")>> ELSE <<>>),
             built |-> TRUE, objs |-> objs, ops |-> loop.ops, cl |-> loop.cl,
             errCount |-> loop.errCount]
    IN  With(SyncLoop(QueryOwner(key), objs, plan, cl), Result)

\* syncResources from the return of buildQuerier on: its error is returned, or the
\* objects are synced
syncAfterBuild(query, key, cl, plan, b) ==
    IF b.err # "nil"
    THEN [err |-> Err(b.err), ep |-> b.ep, events |-> b.ep.events,
          built |-> FALSE, objs |-> <<>>, ops |-> <<>>, cl |-> cl, errCount |-> 0]
    ELSE syncBuiltQuery(query, key, cl, plan, b)

\* ThanosQueryReconciler.syncResources
syncResourcesQuery(query, key, svcs, cl, listErr, plan) ==
    LET Result(b) == syncAfterBuild(query, key, cl, plan, b)
    IN  With(buildQuerier(query, key, svcs, listErr), Result)

\* the SyncFailed events the store loop records, one per failed CreateOrUpdate
StoreLoopEvents(ops) ==
    [i \in 1..Len(SelectSeq(ops, LAMBDA o : o.op = "apiErr")) |->
        Event("Warning", "SyncFailed")]

\* ThanosStoreReconciler.syncResources; resource.MustParse panics on a
\* StorageSize that does not parse
syncResourcesStore(store, key, cl, plan) ==
    LET objs == buildStore(store, key)
        Result(loop) ==
            [err |-> IF loop.errCount > 0 THEN AggregateErr(loop.errCount) ELSE NoErr,
             events |-> StoreLoopEvents(loop.ops), built |-> TRUE, objs |-> objs,
             ops |-> loop.ops, cl |-> loop.cl, errCount |-> loop.errCount]
    IN  IF ~store.StorageSizeParses
        THEN [err |-> Err("panic"), events |-> <<>>, built |-> FALSE, objs |-> <<>>,
              ops |-> <<>>, cl |-> cl, errCount |-> 0]
        ELSE With(SyncLoop(StoreOwner(key), objs, plan, cl), Result)

\* number of loop iterations the pass for a fetched resource will make
QueryLoopLength(query, key, svcs, getErr, listErr) ==
    IF getErr \/ ~query.exists \/ query.Paused = "true" THEN 0
    ELSE LET b == buildQuerier(query, key, svcs, listErr)
         IN  IF b.err # "nil" THEN 0 ELSE Len(QueryObjects(query, key, b.objs))

StoreLoopLength(store, key, getErr) ==
    IF getErr \/ ~store.exists \/ store.Paused = "true" \/ ~store.StorageSizeParses THEN 0
    ELSE Len(buildStore(store, key))

PassesDone == metrics.ReconciliationsTotal[QueryName] + metrics.ReconciliationsTotal[StoreName]

\* the record of a pass: the resource fetched, the outcomes the environment chose,
\* what the pass did, and the counters and child objects before and after it
Pass(ctrl, key, fetch, resource, inputs, res, ep) ==
    [n |-> PassesDone + 1, ctrl |-> ctrl, key |-> key, fetch |-> fetch,
     resource |-> resource, inputs |-> inputs,
     panicked |-> res.err.kind = "panic", err |-> res.err,
     events |-> res.events, listed |-> ep.listed, built |-> res.built,
     items |-> [i \in 1..Len(ep.items) |-> services[ep.items[i]]],
     endpoints |-> ep.endpoints, counted |-> ep.counted,
     objs |-> res.objs, ops |-> res.ops, before |-> metrics, svcs |-> services,
     pre |-> objects, post |-> res.cl,
     seen |-> lastWatch.n,
     marked |-> Request(key) \in workqueue.dirty]

Inputs(getErr, listErr, plan) == [getErr |-> getErr, listErr |-> listErr, plan |-> plan]

NoSync(err, events) ==
    [err |-> err, events |-> events, built |-> FALSE, objs |-> <<>>, ops |-> <<>>,
     cl |-> objects, errCount |-> 0]

IsPausedQueryNonNil(query) == query.Paused # "nil"

\* the pause check of ThanosQueryReconciler.Reconcile
IsPausedQuery(query) == query.Paused # "nil" /\ query.Paused = "true"

\* ThanosQueryReconciler.Reconcile
ReconcileQuery(key, getErr, listErr, plan) ==
    LET query == queries[key]
        m0 == Inc(metrics, "ReconciliationsTotal", QueryName, 1)
        m1 == Inc(m0, "ClientErrorsTotal", QueryName, 1)
        in == Inputs(getErr, listErr, plan)
    IN  /\ PassesDone < MaxPasses
        /\ UNCHANGED <<queries, stores, services, lastWatch, envSteps, meta, etype,
                       workqueue, inflight>>
        /\ IF getErr \/ ~query.exists
           THEN IF ~getErr
                THEN /\ metrics' = m1
                     /\ objects' = objects
                     /\ last' = Pass(QueryName, key, "notfound", NoObj, in,
                                     NoSync(NoErr, <<>>), NoEndpoints)
                ELSE /\ metrics' = Inc(m1, "ReconciliationsFailedTotal", QueryName, 1)
                     /\ objects' = objects
                     /\ last' = Pass(QueryName, key, "error", NoObj, in,
                                     NoSync(Err("get"), <<Event("Warning", "GetFailed")>>),
                                     NoEndpoints)
           ELSE IF IsPausedQuery(query)
           THEN /\ metrics' = m0
                /\ objects' = objects
                /\ last' = Pass(QueryName, key, "ok", query, in,
                                NoSync(NoErr, <<Event("Normal", "Paused")>>), NoEndpoints)
           ELSE \E sync \in {syncResourcesQuery(query, key, services, objects, listErr, plan)} :
                LET m2 == CountEndpoints(
                              Inc(m0, "ClientErrorsTotal", QueryName, sync.errCount),
                              key, sync.ep.counted)
                IN  IF sync.err.kind # "nil"
                    THEN /\ metrics' = Inc(m2, "ReconciliationsFailedTotal", QueryName, 1)
                         /\ objects' = sync.cl
                         /\ last' = Pass(QueryName, key, "ok", query, in,
                                         [sync EXCEPT !.events =
                                             Append(@, Event("Warning", "SyncFailed"))],
                                         sync.ep)
                    ELSE /\ metrics' = m2
                         /\ objects' = sync.cl
                         /\ last' = Pass(QueryName, key, "ok", query, in, sync, sync.ep)

\* the pause check of ThanosStoreReconciler.Reconcile
IsPausedStore(store) == store.Paused # "nil" /\ store.Paused = "true"

\* Reconcile of a ThanosStore that returns the error of the fetch without counting
\* the failed reconciliation
ReconcileStoreGetErrorUncounted(key, getErr, plan) ==
    LET store == stores[key]
        m0 == Inc(metrics, "ReconciliationsTotal", StoreName, 1)
        m1 == Inc(m0, "ClientErrorsTotal", StoreName, 1)
        in == Inputs(getErr, FALSE, plan)
    IN  /\ PassesDone < MaxPasses
        /\ UNCHANGED <<queries, stores, services, lastWatch, envSteps, meta, etype,
                       workqueue, inflight>>
        /\ IF getErr \/ ~store.exists
           THEN IF ~getErr
                THEN /\ metrics' = m1
                     /\ objects' = objects
                     /\ last' = Pass(StoreName, key, "notfound", NoObj, in,
                                     NoSync(NoErr, <<>>), NoEndpoints)
                ELSE /\ metrics' = m1
                     /\ objects' = objects
                     /\ last' = Pass(StoreName, key, "error", NoObj, in,
                                     NoSync(Err("get"), <<Event("Warning", "GetFailed")>>),
                                     NoEndpoints)
           ELSE IF IsPausedStore(store)
           THEN /\ metrics' = m0
                /\ objects' = objects
                /\ last' = Pass(StoreName, key, "ok", store, in,
                                NoSync(NoErr, <<Event("Normal", "Paused")>>), NoEndpoints)
           ELSE \E sync \in {syncResourcesStore(store, key, objects, plan)} :
                LET m2 == Inc(m0, "ClientErrorsTotal", StoreName, sync.errCount)
                IN  IF sync.err.kind = "panic"
                    THEN /\ metrics' = m0
                         /\ objects' = objects
                         /\ last' = Pass(StoreName, key, "ok", store, in, sync, NoEndpoints)
                    ELSE IF sync.err.kind # "nil"
                    THEN /\ metrics' = Inc(m2, "ReconciliationsFailedTotal", StoreName, 1)
                         /\ objects' = sync.cl
                         /\ last' = Pass(StoreName, key, "ok", store, in,
                                         [sync EXCEPT !.events =
                                             Append(@, Event("Warning", "SyncFailed"))],
                                         NoEndpoints)
                    ELSE /\ metrics' = m2
                         /\ objects' = sync.cl
                         /\ last' = Pass(StoreName, key, "ok", store, in, sync, NoEndpoints)

\* ThanosStoreReconciler.Reconcile
ReconcileStore(key, getErr, plan) ==
    LET store == stores[key]
        m0 == Inc(metrics, "ReconciliationsTotal", StoreName, 1)
        m1 == Inc(m0, "ClientErrorsTotal", StoreName, 1)
        in == Inputs(getErr, FALSE, plan)
    IN  /\ PassesDone < MaxPasses
        /\ UNCHANGED <<queries, stores, services, lastWatch, envSteps, meta, etype,
                       workqueue, inflight>>
        /\ IF getErr \/ ~store.exists
           THEN IF ~getErr
                THEN /\ metrics' = m1
                     /\ objects' = objects
                     /\ last' = Pass(StoreName, key, "notfound", NoObj, in,
                                     NoSync(NoErr, <<>>), NoEndpoints)
                ELSE /\ metrics' = Inc(m1, "ReconciliationsFailedTotal", StoreName, 1)
                     /\ objects' = objects
                     /\ last' = Pass(StoreName, key, "error", NoObj, in,
                                     NoSync(Err("get"), <<Event("Warning", "GetFailed")>>),
                                     NoEndpoints)
           ELSE IF IsPausedStore(store)
           THEN /\ metrics' = m0
                /\ objects' = objects
                /\ last' = Pass(StoreName, key, "ok", store, in,
                                NoSync(NoErr, <<Event("Normal", "Paused")>>), NoEndpoints)
           ELSE \E sync \in {syncResourcesStore(store, key, objects, plan)} :
                LET m2 == Inc(m0, "ClientErrorsTotal", StoreName, sync.errCount)
                IN  IF sync.err.kind = "panic"
                    THEN /\ metrics' = m0
                         /\ objects' = objects
                         /\ last' = Pass(StoreName, key, "ok", store, in, sync, NoEndpoints)
                    ELSE IF sync.err.kind # "nil"
                    THEN /\ metrics' = Inc(m2, "ReconciliationsFailedTotal", StoreName, 1)
                         /\ objects' = sync.cl
                         /\ last' = Pass(StoreName, key, "ok", store, in,
                                         [sync EXCEPT !.events =
                                             Append(@, Event("Warning", "SyncFailed"))],
                                         NoEndpoints)
                    ELSE /\ metrics' = m2
                         /\ objects' = sync.cl
                         /\ last' = Pass(StoreName, key, "ok", store, in, sync, NoEndpoints)

----------------------------------------------------------------------------
(* Watch Router *)

\* the ThanosQuery resources, in the order a listing returns them
QueryOrder == << <<"ns-a", "q1">>, <<"ns-a", "q2">>, <<"ns-b", "q1">> >>

CreateEvent(obj) == [type |-> "Create", ObjectOld |-> NoObj, ObjectNew |-> NoObj, Object |-> obj]
UpdateEvent(old, new) == [type |-> "Update", ObjectOld |-> old, ObjectNew |-> new, Object |-> NoObj]
DeleteEvent(obj) == [type |-> "Delete", ObjectOld |-> NoObj, ObjectNew |-> NoObj, Object |-> obj]

\* the object a predicate built by predicate.NewPredicateFuncs looks at
FilteredObject(e) == IF e.type = "Update" THEN e.ObjectNew ELSE e.Object

\* predicate.LabelSelectorPredicate over requiredStoreServiceLabels
servicePredicate(e) ==
    Matches(LabelSelectorAsSelector(LabelSelector(requiredStoreServiceLabels, <<>>)),
            FilteredObject(e).Labels)

\* predicate.LabelChangedPredicate: only an update is examined
LabelChangedPredicate(e) ==
    e.type = "Update" => e.ObjectNew.Labels # e.ObjectOld.Labels

\* predicate.GenerationChangedPredicate: only an update is examined
GenerationChangedPredicate(e) ==
    e.type = "Update" => e.ObjectNew.Generation # e.ObjectOld.Generation

withLabelChangedPredicate(e) == servicePredicate(e) /\ LabelChangedPredicate(e)

withGenerationChangePredicate(e) ==
    servicePredicate(e) /\ GenerationChangedPredicate(e) /\ servicePredicate(e)

withPredicateLabelOnly(e) == withLabelChangedPredicate(e) \/ servicePredicate(e)

withPredicate(e) == withLabelChangedPredicate(e) \/ withGenerationChangePredicate(e)

isQueueableStoreServiceLabelsOnly(obj) ==
    \A k \in DOMAIN requiredStoreServiceLabels :
        k \in DOMAIN obj.Labels /\ obj.Labels[k] = requiredStoreServiceLabels[k]

isQueueableStoreService(obj) ==
    IsGrpcServiceWithLabels(obj, requiredStoreServiceLabels).ok

\* client.List of ThanosQuery with InNamespace
ListQueries(qs, ns) == SelectSeq(QueryOrder, LAMBDA k : qs[k].exists /\ k[1] = ns)

\* the loop of the map function over the listed ThanosQuery resources
RequestsForAbortOnError(obj, qs, items) ==
    LET F[i \in 0..Len(items)] ==
            IF i = 0 THEN [requests |-> <<>>, stop |-> FALSE]
            ELSE LET selector == BuildLabelSelectorFrom(qs[items[i]].StoreLabelSelector,
                                                        requiredStoreServiceLabels)
                 IN  IF F[i - 1].stop \/ selector.err
                     THEN [requests |-> F[i - 1].requests, stop |-> TRUE]
                     ELSE IF Matches(selector, obj.Labels)
                     THEN [requests |-> Append(F[i - 1].requests, Request(items[i])),
                           stop |-> FALSE]
                     ELSE F[i - 1]
    IN  F[Len(items)].requests

RequestsFor(obj, qs, items) ==
    LET F[i \in 0..Len(items)] ==
            IF i = 0 THEN <<>>
            ELSE LET selector == BuildLabelSelectorFrom(qs[items[i]].StoreLabelSelector,
                                                        requiredStoreServiceLabels)
                 IN  IF selector.err THEN F[i - 1]
                     ELSE IF Matches(selector, obj.Labels)
                     THEN Append(F[i - 1], Request(items[i]))
                     ELSE F[i - 1]
    IN  F[Len(items)]

\* the map function of enqueueForService: the requests it returns, whether it
\* listed the ThanosQuery resources, and what it added to
\* ServiceWatchesReconciliationsTotal
enqueueForService(obj, qs, listErr) ==
    IF ~isQueueableStoreService(obj)
    THEN [obj |-> obj, admitted |-> FALSE, listed |-> FALSE, listErr |-> FALSE,
          requests |-> <<>>, counted |-> 0]
    ELSE IF listErr
    THEN [obj |-> obj, admitted |-> TRUE, listed |-> TRUE, listErr |-> TRUE,
          requests |-> <<>>, counted |-> 0]
    ELSE LET requests == RequestsFor(obj, qs, ListQueries(qs, obj.Namespace))
         IN  [obj |-> obj, admitted |-> TRUE, listed |-> TRUE, listErr |-> FALSE,
              requests |-> requests, counted |-> Len(requests)]

\* handler.EnqueueRequestsFromMapFunc: the map function runs on the object of a
\* create or delete event, and on the old and then the new object of an update
MapCalls(e, qs, listErrs) ==
    IF e.type = "Update"
    THEN << enqueueForService(e.ObjectOld, qs, listErrs[1]),
            enqueueForService(e.ObjectNew, qs, listErrs[2]) >>
    ELSE << enqueueForService(e.Object, qs, listErrs[1]) >>

\* the requests the handler adds to the work queue, without duplicates
Enqueued(calls) ==
    UNION {{calls[i].requests[j] : j \in 1..Len(calls[i].requests)} : i \in 1..Len(calls)}

\* the workers of the controller (MaxConcurrentReconciles) and a worker that is
\* not running a Reconcile
Workers == 1..MaxConcurrentReconciles
Idle == [busy |-> FALSE]

RECURSIVE SumCounted(_)
SumCounted(calls) ==
    IF calls = <<>> THEN 0 ELSE Head(calls).counted + SumCounted(Tail(calls))

\* the work queue the controller built by SetupWithManager reads its requests
\* from: the requests waiting in order, the requests to be processed (dirty) and
\* the requests a worker is processing
EmptyQueue == [queue |-> <<>>, dirty |-> {}, processing |-> {}]

\* Add with every request forgotten that arrives while the same request is being
\* processed
AddDropInFlight(q, item) ==
    IF item \in q.dirty \/ item \in q.processing THEN q
    ELSE [q EXCEPT !.dirty = @ \cup {item}, !.queue = Append(@, item)]

\* Add: a request already marked is not added twice, and a request that is being
\* processed is marked and not queued until its processing is done
Add(q, item) ==
    IF item \in q.dirty THEN q
    ELSE IF item \in q.processing THEN [q EXCEPT !.dirty = @ \cup {item}]
    ELSE [q EXCEPT !.dirty = @ \cup {item}, !.queue = Append(@, item)]

RECURSIVE AddAll(_, _)
AddAll(q, items) ==
    IF items = <<>> THEN q ELSE AddAll(Add(q, Head(items)), Tail(items))

\* Get: the first waiting request is handed to a worker
Get(q) ==
    [item |-> Head(q.queue),
     q |-> [queue |-> Tail(q.queue), dirty |-> q.dirty \ {Head(q.queue)},
            processing |-> q.processing \cup {Head(q.queue)}]]

\* Done: the request leaves the processing set and is queued again if it was
\* marked meanwhile
Done(q, item) ==
    IF item \in q.dirty
    THEN [q EXCEPT !.processing = @ \ {item}, !.queue = Append(@, item)]
    ELSE [q EXCEPT !.processing = @ \ {item}]

\* the requests of all calls of the map function, in the order they are returned
RECURSIVE AllRequests(_)
AllRequests(calls) ==
    IF calls = <<>> THEN <<>> ELSE Head(calls).requests \o AllRequests(Tail(calls))

\* delivery of a Service event to the watch set up by SetupWithManager
Watch(e, listErrs) ==
    LET passed == withPredicate(e)
        calls == IF passed THEN MapCalls(e, queries, listErrs) ELSE <<>>
    IN  /\ metrics' = [metrics EXCEPT !.ServiceWatchesReconciliationsTotal =
                                          @ + SumCounted(calls)]
        /\ lastWatch' = [n |-> lastWatch.n + 1, event |-> e, passed |-> passed,
                         calls |-> calls, enqueued |-> Enqueued(calls),
                         before |-> metrics.ServiceWatchesReconciliationsTotal]
        /\ workqueue' = AddAll(workqueue, AllRequests(calls))

----------------------------------------------------------------------------
(* The environment: Service events, spec edits, drift of child objects *)

ServiceCreated(key, ls, grpc, listErrs) ==
    LET new == Service(key[1], key[2], ls, grpc, 0)
    IN  /\ envSteps < MaxEnvSteps
        /\ ~services[key].exists
        /\ services' = [services EXCEPT ![key] = new]
        /\ envSteps' = envSteps + 1
        /\ Watch(CreateEvent(new), listErrs)
        /\ UNCHANGED <<queries, stores, objects, last, meta, etype, inflight>>

\* an update of the labels, the ports or other fields of a Service; the API server
\* may or may not bump metadata.generation with it
ServiceUpdated(key, ls, grpc, bump, listErrs) ==
    LET old == services[key]
        new == Service(key[1], key[2], ls, grpc,
                       old.Generation + (IF bump THEN 1 ELSE 0))
    IN  /\ envSteps < MaxEnvSteps
        /\ old.exists
        /\ services' = [services EXCEPT ![key] = new]
        /\ envSteps' = envSteps + 1
        /\ Watch(UpdateEvent(old, new), listErrs)
        /\ UNCHANGED <<queries, stores, objects, last, meta, etype, inflight>>

ServiceDeleted(key, listErrs) ==
    /\ envSteps < MaxEnvSteps
    /\ services[key].exists
    /\ services' = [services EXCEPT ![key] = NoObj]
    /\ envSteps' = envSteps + 1
    /\ Watch(DeleteEvent(services[key]), listErrs)
    /\ UNCHANGED <<queries, stores, objects, last, meta, etype, inflight>>

\* the user creates, edits or deletes a ThanosQuery
QueryEdited(key, spec) ==
    /\ envSteps < MaxEnvSteps
    /\ queries[key] # spec
    /\ queries' = [queries EXCEPT ![key] = spec]
    /\ envSteps' = envSteps + 1
    /\ UNCHANGED <<stores, services, objects, metrics, last, lastWatch, meta, etype,
                   workqueue, inflight>>

\* the user creates, edits or deletes a ThanosStore
StoreEdited(key, spec) ==
    /\ envSteps < MaxEnvSteps
    /\ stores[key] # spec
    /\ stores' = [stores EXCEPT ![key] = spec]
    /\ envSteps' = envSteps + 1
    /\ UNCHANGED <<queries, services, objects, metrics, last, lastWatch, meta, etype,
                   workqueue, inflight>>

\* another client deletes a child object, or changes its spec, or the server sets
\* one of its managed fields
ObjectDrifted(key, change) ==
    /\ envSteps < MaxEnvSteps
    /\ objects[key].exists
    /\ objects' = [objects EXCEPT ![key] =
                      CASE change = "delete" -> NoObj
                        [] change = "spec" -> [@ EXCEPT !.content.rev = 0]
                        [] change = "managed" -> [@ EXCEPT !.managed = "set"]]
    /\ objects'[key] # objects[key]
    /\ envSteps' = envSteps + 1
    /\ UNCHANGED <<queries, stores, services, metrics, last, lastWatch, meta, etype,
                   workqueue, inflight>>

----------------------------------------------------------------------------
(* Initial states and specifications *)

MaxShards == 2

\* the keys of the child objects the resources of the model can produce
ChildKeys ==
    UNION {{ChildKey(kind, k[1], name) :
               kind \in {"ServiceAccount", "Deployment", "Service"},
               name \in {k[2], k[2] \o "-frontend"}} : k \in ReconciledQueries}
    \cup UNION {{ChildKey("ServiceAccount", k[1], k[2])}
                \cup {ChildKey(kind, k[1], k[2] \o ShardSuffix[i]) :
                         kind \in {"StatefulSet", "Service"}, i \in 1..MaxShards} :
                k \in StoreKeys}

ZeroMetrics ==
    [ReconciliationsTotal |-> [c \in {QueryName, StoreName} |-> 0],
     ClientErrorsTotal |-> [c \in {QueryName, StoreName} |-> 0],
     ReconciliationsFailedTotal |-> [c \in {QueryName, StoreName} |-> 0],
     EndpointsConfigured |-> [c \in EndpointTypes \X ReconciledQueries |-> 0],
     ServiceWatchesReconciliationsTotal |-> 0]

NoPass ==
    [n |-> 0, ctrl |-> "", key |-> <<"", "">>, fetch |-> "", resource |-> NoObj,
     inputs |-> Inputs(FALSE, FALSE, <<>>), panicked |-> FALSE, err |-> NoErr, events |-> <<>>, listed |-> FALSE,
     built |-> FALSE, items |-> <<>>, endpoints |-> <<>>, counted |-> <<>>,
     objs |-> <<>>, ops |-> <<>>, before |-> ZeroMetrics,
     svcs |-> [k \in ServiceKeys |-> NoObj],
     pre |-> [k \in ChildKeys |-> NoObj], post |-> [k \in ChildKeys |-> NoObj],
     seen |-> 0, marked |-> FALSE]

NoWatch ==
    [n |-> 0, event |-> DeleteEvent(NoObj), passed |-> FALSE, calls |-> <<>>,
     enqueued |-> {}, before |-> 0]

BaseLabels == requiredStoreServiceLabels

TierSelector == LabelSelector(TierLabel :> "a", <<>>)
BadSelector == LabelSelector(EmptyLabels, <<Requirement(TierLabel, "Bogus", {})>>)
NotStrictSelector == LabelSelector(EmptyLabels, <<Requirement(StrictLabel, "DoesNotExist", {})>>)

PausedValues == {"nil", "true", "false"}

\* what one edit by the user can make of a ThanosQuery: a pause or resume, the
\* frontend added or removed, another field changed, a malformed selector, deletion
QueryEdits(q) ==
    {[q EXCEPT !.Paused = p] : p \in PausedValues}
    \cup {[q EXCEPT !.QueryFrontend = ~@], [q EXCEPT !.Rev = 3 - @],
          [q EXCEPT !.StoreLabelSelector = IF @ = NilSelector THEN BadSelector
                                           ELSE NilSelector],
          NoObj}

\* what one edit by the user can make of a ThanosStore
StoreEdits(st) ==
    {[st EXCEPT !.Paused = p] : p \in PausedValues}
    \cup {[st EXCEPT !.Shards = IF @ = MaxShards THEN 1 ELSE @ + 1], [st EXCEPT !.Rev = 3 - @],
          [st EXCEPT !.StorageSizeParses = ~@], NoObj}

\* the Service label sets of the reconciliation specification
ServiceLabels ==
    {BaseLabels, BaseLabels @@ (StrictLabel :> "true"),
     DefaultStoreAPILabel :> DefaultStoreAPIValue}

\* the child objects other clients touch
DriftKeys ==
    {ChildKey("Deployment", "ns-a", "q1"), ChildKey("StatefulSet", "ns-a", "st1-shard-0")}

InitCommon ==
    /\ objects = [k \in ChildKeys |-> NoObj]
    /\ metrics = ZeroMetrics
    /\ last = NoPass
    /\ lastWatch = NoWatch
    /\ envSteps = 0
    /\ meta = [Labels |-> EmptyLabels]
    /\ etype = ""
    /\ workqueue = EmptyQueue
    /\ inflight = [w \in Workers |-> Idle]

\* the Services of the initial clusters
InitServices ==
    {[k \in ServiceKeys |-> NoObj],
     [k \in ServiceKeys |->
        IF k = <<"ns-a", "svc-1">> THEN Service(k[1], k[2], BaseLabels, TRUE, 0)
        ELSE IF k = <<"ns-a", "svc-2">> THEN Service(k[1], k[2], BaseLabels, FALSE, 0)
        ELSE NoObj],
     [k \in ServiceKeys |->
        IF k = <<"ns-a", "svc-1">>
        THEN Service(k[1], k[2], BaseLabels @@ (StrictLabel :> "true"), TRUE, 0)
        ELSE IF k = <<"ns-a", "svc-2">> THEN Service(k[1], k[2], BaseLabels, TRUE, 0)
        ELSE NoObj]}

\* a cluster with one ThanosQuery and its candidate Services
InitQueryCluster ==
    /\ \E f \in BOOLEAN :
          /\ queries = [k \in QueryKeys |->
                           IF k = <<"ns-a", "q1">> THEN ThanosQuery("nil", NilSelector, f, 1)
                           ELSE NoObj]
          /\ services \in InitServices
          /\ f => services[<<"ns-a", "svc-2">>].exists /\ ~services[<<"ns-a", "svc-2">>].grpc
    /\ stores = [k \in StoreKeys |-> NoObj]

\* a cluster with one ThanosStore
InitStoreCluster ==
    /\ queries = [k \in QueryKeys |-> NoObj]
    /\ \E n \in 1..MaxShards : stores = [k \in StoreKeys |-> ThanosStore("nil", TRUE, n, 1)]
    /\ services = [k \in ServiceKeys |-> NoObj]

Init == InitCommon /\ (InitQueryCluster \/ InitStoreCluster)

\* the environment's choices for a pass: a failing Get makes the rest irrelevant
PassInputs == {<<FALSE, FALSE>>, <<TRUE, FALSE>>, <<FALSE, TRUE>>}

QueryPass ==
    /\ PassesDone < MaxPasses
    /\ \E key \in ReconciledQueries, i \in PassInputs :
          \E plan \in PlanSet(QueryLoopLength(queries[key], key, services, i[1], i[2])) :
             ReconcileQuery(key, i[1], i[2], plan)

StorePass ==
    /\ PassesDone < MaxPasses
    /\ \E key \in StoreKeys, getErr \in BOOLEAN :
          \E plan \in PlanSet(StoreLoopLength(stores[key], key, getErr)) :
             ReconcileStore(key, getErr, plan)

Next ==
    \/ QueryPass
    \/ StorePass
    \/ \E key \in QueryKeys :
          /\ envSteps < MaxEnvSteps
          /\ queries[key].exists
          /\ \E spec \in QueryEdits(queries[key]) : QueryEdited(key, spec)
    \/ \E key \in StoreKeys :
          /\ envSteps < MaxEnvSteps
          /\ stores[key].exists
          /\ \E spec \in StoreEdits(stores[key]) : StoreEdited(key, spec)
    \/ \E key \in DriftKeys, change \in {"delete", "spec", "managed"} :
          ObjectDrifted(key, change)
    \/ \E ls \in ServiceLabels, grpc \in BOOLEAN :
          ServiceCreated(<<"ns-a", "svc-2">>, ls, grpc, <<FALSE>>)
    \/ \E ls \in ServiceLabels, grpc \in BOOLEAN :
          ServiceUpdated(<<"ns-a", "svc-2">>, ls, grpc, TRUE, <<FALSE, FALSE>>)
    \/ ServiceDeleted(<<"ns-a", "svc-2">>, <<FALSE>>)

Spec == Init /\ [][Next]_vars

----------------------------------------------------------------------------
(* Classification of a Service by its marker labels *)

MarkerValues == {"true", "false"}

\* the label sets handed to getServiceTypeFromLabel
ClassifiedLabels ==
    LabelMaps({StrictLabel, GroupStrictLabel, GroupLabel, RegularLabel, TierLabel},
              MarkerValues)

InitClassify ==
    /\ queries = [k \in QueryKeys |-> NoObj]
    /\ stores = [k \in StoreKeys |-> NoObj]
    /\ services = [k \in ServiceKeys |-> NoObj]
    /\ objects = [k \in ChildKeys |-> NoObj]
    /\ metrics = ZeroMetrics
    /\ last = NoPass
    /\ lastWatch = NoWatch
    /\ envSteps = 0
    /\ \E ls \in ClassifiedLabels : meta = [Labels |-> ls]
    /\ etype = ""
    /\ workqueue = EmptyQueue
    /\ inflight = [w \in Workers |-> Idle]

Classify ==
    /\ etype = ""
    /\ etype' = getServiceTypeFromLabel(meta)
    /\ UNCHANGED <<queries, stores, services, objects, metrics, last, lastWatch,
                   envSteps, meta, workqueue, inflight>>

SpecClassify == InitClassify /\ [][Classify]_vars

----------------------------------------------------------------------------
(* The Service watch on its own: events of one Service over fixed ThanosQuery sets *)

\* label sets of the watched Service: each base label absent, right or wrong, a
\* user label and a marker label
WatchedLabels ==
    {Merged(a, Merged(b, Merged(c, d))) :
        a \in {EmptyLabels, DefaultStoreAPILabel :> DefaultStoreAPIValue},
        b \in {EmptyLabels, PartOfLabel :> DefaultPartOfLabel, PartOfLabel :> "other"},
        c \in {EmptyLabels, TierLabel :> "a"},
        d \in {EmptyLabels, StrictLabel :> "true"}}

WatchedService == <<"ns-a", "svc-1">>

QuerySet(q1, q2, q3) ==
    [k \in QueryKeys |->
        IF k = <<"ns-a", "q1">> THEN q1 ELSE IF k = <<"ns-a", "q2">> THEN q2 ELSE q3]

\* the ThanosQuery resources of the watched clusters
WatchedQueries ==
    {QuerySet(ThanosQuery("nil", NilSelector, FALSE, 1),
              ThanosQuery("nil", TierSelector, FALSE, 1),
              ThanosQuery("nil", NilSelector, FALSE, 1)),
     QuerySet(ThanosQuery("nil", BadSelector, FALSE, 1),
              ThanosQuery("nil", NotStrictSelector, FALSE, 1),
              ThanosQuery("nil", TierSelector, FALSE, 1)),
     QuerySet(NoObj, ThanosQuery("nil", NilSelector, FALSE, 1), NoObj),
     QuerySet(NoObj, NoObj, NoObj)}

InitRoute ==
    /\ InitCommon
    /\ queries \in WatchedQueries
    /\ stores = [k \in StoreKeys |-> NoObj]
    /\ \E svc \in {NoObj} \cup {Service(WatchedService[1], WatchedService[2], ls, g, 0) :
                                  ls \in WatchedLabels, g \in BOOLEAN} :
          services = [k \in ServiceKeys |-> IF k = WatchedService THEN svc ELSE NoObj]

NextRoute ==
    \/ \E ls \in WatchedLabels, grpc \in BOOLEAN, listErr \in BOOLEAN :
          ServiceCreated(WatchedService, ls, grpc, <<listErr>>)
    \/ \E ls \in WatchedLabels, grpc \in BOOLEAN, bump \in BOOLEAN,
          listErrs \in BOOLEAN \X BOOLEAN :
          ServiceUpdated(WatchedService, ls, grpc, bump, listErrs)
    \/ \E listErr \in BOOLEAN : ServiceDeleted(WatchedService, <<listErr>>)

SpecRoute == InitRoute /\ [][NextRoute]_vars

----------------------------------------------------------------------------
(* Retry by the work queue: a pass that returns an error is run again *)

\* passes in which the environment may still make calls fail
MaxFailingPasses == 1

\* a child object left by an earlier spec or changed by another client
StaleObject(owner) ==
    [exists |-> TRUE, owner |-> owner, content |-> [rev |-> 0, args |-> <<>>],
     managed |-> "set"]

\* the child objects at the start: none, or stale ones
RetryClusters ==
    {[k \in ChildKeys |-> NoObj],
     [k \in ChildKeys |->
        IF k = ChildKey("Deployment", "ns-a", "q1")
        THEN StaleObject(QueryOwner(<<"ns-a", "q1">>))
        ELSE IF k = ChildKey("StatefulSet", "ns-a", "st1-shard-0")
        THEN StaleObject(StoreOwner(<<"ns-a", "st1">>))
        ELSE NoObj]}

InitRetry ==
    /\ metrics = ZeroMetrics
    /\ last = NoPass
    /\ lastWatch = NoWatch
    /\ envSteps = 0
    /\ meta = [Labels |-> EmptyLabels]
    /\ etype = ""
    /\ workqueue = EmptyQueue
    /\ inflight = [w \in Workers |-> Idle]
    /\ objects \in RetryClusters
    /\ \/ /\ \E f \in BOOLEAN, p \in {"nil", "true"}, sel \in {NilSelector, BadSelector} :
                queries = [k \in QueryKeys |->
                              IF k = <<"ns-a", "q1">> THEN ThanosQuery(p, sel, f, 1)
                              ELSE NoObj]
          /\ services \in InitServices
          /\ stores = [k \in StoreKeys |-> NoObj]
       \/ /\ queries = [k \in QueryKeys |-> NoObj]
          /\ \E n \in 1..MaxShards, ok \in BOOLEAN, p \in {"nil", "true"} :
                stores = [k \in StoreKeys |-> ThanosStore(p, ok, n, 1)]
          /\ services = [k \in ServiceKeys |-> NoObj]

\* the work queue holds a request: the first one, or the retry after an error
Requeued == last.n = 0 \/ last.err # NoErr

\* the calls of a pass may fail only during the first MaxFailingPasses passes
RetryInputs == IF PassesDone < MaxFailingPasses THEN PassInputs ELSE {<<FALSE, FALSE>>}

RetryPlans(n) ==
    IF PassesDone < MaxFailingPasses THEN PlanSet(n) ELSE {[i \in 1..n |-> "ok"]}

RetryQueryPass ==
    /\ PassesDone < MaxPasses
    /\ Requeued
    /\ \E key \in ReconciledQueries, i \in RetryInputs :
          /\ queries[key].exists
          /\ \E plan \in RetryPlans(QueryLoopLength(queries[key], key, services, i[1], i[2])) :
                ReconcileQuery(key, i[1], i[2], plan)

RetryStorePass ==
    /\ PassesDone < MaxPasses
    /\ Requeued
    /\ \E key \in StoreKeys, i \in RetryInputs :
          /\ ~i[2]
          /\ stores[key].exists
          /\ \E plan \in RetryPlans(StoreLoopLength(stores[key], key, i[1])) :
                ReconcileStore(key, i[1], plan)

NextRetry == RetryQueryPass \/ RetryStorePass

\* the enabling conditions of the two passes
QueryRetryPending ==
    PassesDone < MaxPasses /\ Requeued /\ \E key \in ReconciledQueries : queries[key].exists

StoreRetryPending ==
    PassesDone < MaxPasses /\ Requeued /\ \E key \in StoreKeys : stores[key].exists

\* the work queue runs a pending request: weak fairness of each pass (WF_vars),
\* written out with the enabling condition of the pass
SpecRetry ==
    /\ InitRetry /\ [][NextRetry]_vars
    /\ ([]<>(~QueryRetryPending) \/ []<><<RetryQueryPass>>_vars)
    /\ ([]<>(~StoreRetryPending) \/ []<><<RetryStorePass>>_vars)

----------------------------------------------------------------------------
(* The work queue and its workers: passes of ThanosQuery resources that run while   *)
(* Service events are delivered                                                     *)

\* the ThanosQuery resources a started controller finds: the watch of
\* For(&ThanosQuery{}) adds a request for each
ScheduledQueries ==
    {QuerySet(ThanosQuery("nil", NilSelector, FALSE, 1), q2, NoObj) :
        q2 \in {NoObj, ThanosQuery("nil", TierSelector, FALSE, 1)}}

InitialRequests(qs) ==
    [i \in 1..Len(ListQueries(qs, "ns-a")) |-> Request(ListQueries(qs, "ns-a")[i])]

InitSchedule ==
    /\ objects = [k \in ChildKeys |-> NoObj]
    /\ metrics = ZeroMetrics
    /\ last = NoPass
    /\ lastWatch = NoWatch
    /\ envSteps = 0
    /\ meta = [Labels |-> EmptyLabels]
    /\ etype = ""
    /\ queries \in ScheduledQueries
    /\ stores = [k \in StoreKeys |-> NoObj]
    /\ services \in InitServices
    /\ workqueue = AddAll(EmptyQueue, InitialRequests(queries))
    /\ inflight = [w \in Workers |-> Idle]

\* Reconcile from its start to the return of buildQuerier: the fetch, the pause
\* check and the listing of the Services; returned tells that Reconcile returns
\* without reaching the sync loop
ReconcileToBuild(key, getErr, listErr) ==
    LET query == queries[key]
        m0 == Inc(metrics, "ReconciliationsTotal", QueryName, 1)
        m1 == Inc(m0, "ClientErrorsTotal", QueryName, 1)
        Started(fetch, resource, returned, err, events, b, m) ==
            [busy |-> TRUE, key |-> key, fetch |-> fetch, resource |-> resource,
             getErr |-> getErr, listErr |-> listErr, returned |-> returned,
             err |-> err, events |-> events, b |-> b, metrics |-> m,
             mayFail |-> PassesDone < MaxFailingPasses,
             svcs |-> services, seen |-> lastWatch.n]
        NoBuild == [err |-> "nil", objs |-> <<>>, ep |-> NoEndpoints]
    IN  IF getErr \/ ~query.exists
        THEN IF ~getErr
             THEN Started("notfound", NoObj, TRUE, NoErr, <<>>, NoBuild, m1)
             ELSE Started("error", NoObj, TRUE, Err("get"),
                          <<Event("Warning", "GetFailed")>>, NoBuild,
                          Inc(m1, "ReconciliationsFailedTotal", QueryName, 1))
        ELSE IF IsPausedQuery(query)
        THEN Started("ok", query, TRUE, NoErr, <<Event("Normal", "Paused")>>, NoBuild, m0)
        ELSE LET Built(b) ==
                     Started("ok", query, FALSE, NoErr, <<>>, b,
                             CountEndpoints(m0, key, b.ep.counted))
             IN  With(buildQuerier(query, key, services, listErr), Built)

\* a worker takes the first request of the queue and runs Reconcile up to the
\* return of buildQuerier
WorkerStart(w, getErr, listErr) ==
    /\ ~inflight[w].busy
    /\ workqueue.queue # <<>>
    /\ \E g \in {Get(workqueue)} :
          \E f \in {ReconcileToBuild(<<g.item.Namespace, g.item.Name>>, getErr, listErr)} :
             /\ workqueue' = g.q
             /\ inflight' = [inflight EXCEPT ![w] = f]
             /\ metrics' = f.metrics
    /\ UNCHANGED <<queries, stores, services, objects, last, lastWatch, envSteps,
                   meta, etype>>

\* the rest of Reconcile: the sync loop over the objects built from the listing the
\* pass made, the counters and the event; Reconcile returns, a returned error adds
\* the request again (AddRateLimited) and the request is Done
WorkerReturn(w, plan) ==
    LET f == inflight[w]
        item == Request(f.key)
    IN  /\ f.busy
        /\ \E res \in {IF f.returned THEN NoSync(f.err, f.events)
                        ELSE syncAfterBuild(f.resource, f.key, objects, plan, f.b)} :
              LET failed == ~f.returned /\ res.err.kind # "nil"
                  m2 == Inc(metrics, "ClientErrorsTotal", QueryName, res.errCount)
                  recorded == IF failed
                              THEN [res EXCEPT
                                       !.events = Append(@, Event("Warning", "SyncFailed"))]
                              ELSE res
              IN  /\ metrics' = IF failed
                                THEN Inc(m2, "ReconciliationsFailedTotal", QueryName, 1)
                                ELSE m2
                  /\ objects' = res.cl
                  /\ last' = [Pass(QueryName, f.key, f.fetch, f.resource,
                                   Inputs(f.getErr, f.listErr, plan), recorded, f.b.ep)
                                 EXCEPT !.svcs = f.svcs, !.seen = f.seen,
                                        !.items = [i \in 1..Len(f.b.ep.items) |->
                                                      f.svcs[f.b.ep.items[i]]]]
                  /\ workqueue' = Done(IF res.err # NoErr THEN Add(workqueue, item)
                                       ELSE workqueue, item)
        /\ inflight' = [inflight EXCEPT ![w] = Idle]
        /\ UNCHANGED <<queries, stores, services, lastWatch, envSteps, meta, etype>>

\* the outcomes of the calls of a pass: calls fail in the first MaxFailingPasses
\* passes only
SchedulePlans(f) ==
    LET n == IF f.returned \/ f.b.err # "nil" THEN 0
             ELSE Len(QueryObjects(f.resource, f.key, f.b.objs))
    IN  IF f.mayFail THEN PlanSet(n) ELSE {[i \in 1..n |-> "ok"]}

StartPass == \E w \in Workers, i \in RetryInputs : WorkerStart(w, i[1], i[2])

ReturnPass ==
    \E w \in Workers :
       /\ inflight[w].busy
       /\ \E plan \in SchedulePlans(inflight[w]) : WorkerReturn(w, plan)

ScheduledService == <<"ns-a", "svc-2">>

NextSchedule ==
    \/ StartPass
    \/ ReturnPass
    \/ \E ls \in ServiceLabels, grpc \in BOOLEAN, listErr \in BOOLEAN :
          ServiceCreated(ScheduledService, ls, grpc, <<listErr>>)
    \/ \E ls \in ServiceLabels, grpc \in BOOLEAN, bump \in BOOLEAN, listErr \in BOOLEAN :
          ServiceUpdated(ScheduledService, ls, grpc, bump, <<listErr, listErr>>)
    \/ \E listErr \in BOOLEAN : ServiceDeleted(ScheduledService, <<listErr>>)

\* the enabling conditions of the two worker steps
StartPending == workqueue.queue # <<>> /\ \E w \in Workers : ~inflight[w].busy

ReturnPending == \E w \in Workers : inflight[w].busy

\* a worker takes a waiting request and a running Reconcile returns: weak fairness
\* of both steps, written out with their enabling conditions
SpecSchedule ==
    /\ InitSchedule /\ [][NextSchedule]_vars
    /\ ([]<>(~StartPending) \/ []<><<StartPass>>_vars)
    /\ ([]<>(~ReturnPending) \/ []<><<ReturnPass>>_vars)

----------------------------------------------------------------------------
(* Resources whose names are related: a ThanosQuery named like the frontend of      *)
(* another, and a ThanosStore named like a ThanosQuery, in one namespace            *)

NamedQueryKeys == {<<"ns-a", "q1">>, <<"ns-a", "q1-frontend">>, <<"ns-a", "q2">>}
NamedStoreKeys == {<<"ns-a", "q1">>, <<"ns-a", "st1">>}

\* the keys of the child objects these resources can produce
NamedChildKeys ==
    UNION {{ChildKey(kind, k[1], name) :
               kind \in {"ServiceAccount", "Deployment", "Service"},
               name \in {k[2], k[2] \o "-frontend"}} : k \in NamedQueryKeys}
    \cup UNION {{ChildKey("ServiceAccount", k[1], k[2])}
                \cup {ChildKey(kind, k[1], k[2] \o ShardSuffix[i]) :
                         kind \in {"StatefulSet", "Service"}, i \in 1..MaxShards} :
                k \in NamedStoreKeys}

InitNames ==
    /\ objects = [k \in NamedChildKeys |-> NoObj]
    /\ metrics = [ZeroMetrics EXCEPT
                     !.EndpointsConfigured = [c \in EndpointTypes \X NamedQueryKeys |-> 0]]
    /\ last = [NoPass EXCEPT !.pre = [k \in NamedChildKeys |-> NoObj],
                             !.post = [k \in NamedChildKeys |-> NoObj]]
    /\ lastWatch = NoWatch
    /\ envSteps = 0
    /\ meta = [Labels |-> EmptyLabels]
    /\ etype = ""
    /\ workqueue = EmptyQueue
    /\ inflight = [w \in Workers |-> Idle]
    /\ \E f \in BOOLEAN :
          queries = [k \in NamedQueryKeys |->
                        ThanosQuery("nil", NilSelector, f /\ k = <<"ns-a", "q1">>, 1)]
    /\ \E n \in 1..MaxShards :
          stores = [k \in NamedStoreKeys |-> ThanosStore("nil", TRUE, n, 1)]
    /\ services = [k \in ServiceKeys |-> NoObj]

NamedQueryPass ==
    \E key \in NamedQueryKeys, i \in PassInputs :
       \E plan \in PlanSet(QueryLoopLength(queries[key], key, services, i[1], i[2])) :
          ReconcileQuery(key, i[1], i[2], plan)

NamedStorePass ==
    \E key \in NamedStoreKeys, getErr \in BOOLEAN :
       \E plan \in PlanSet(StoreLoopLength(stores[key], key, getErr)) :
          ReconcileStore(key, getErr, plan)

NextNames == NamedQueryPass \/ NamedStorePass

SpecNames == InitNames /\ [][NextNames]_vars

----------------------------------------------------------------------------
(* Properties *)

\* the marker labels, highest priority first
MarkerPriority == <<StrictLabel, GroupStrictLabel, GroupLabel>>

MarkersPresent(ls) ==
    {i \in 1..Len(MarkerPriority) : MarkerPriority[i] \in DOMAIN ls}

\* C5: getServiceTypeFromLabel assigns exactly one endpoint type, the
\* highest-priority marker label present on the Service in the order
\* Strict > GroupStrict > Group, and Regular when no marker is present; the type is
\* decided by which marker keys are present alone, whatever their values and the
\* other labels.
C5_ClassificationPrecedence ==
    etype # "" =>
        LET present == MarkersPresent(meta.Labels)
        IN  /\ etype \in EndpointTypes
            /\ present = {} => etype = RegularLabel
            /\ present # {} =>
                  \E i \in present : /\ etype = MarkerPriority[i]
                                     /\ \A j \in present : i <= j

\* a Service with the Strict and the Group marker, both set to "false", and a
\* foreign label has been classified Strict
C5_Witness ==
    /\ etype = StrictLabel
    /\ {StrictLabel, GroupLabel, TierLabel} \subseteq DOMAIN meta.Labels
    /\ meta.Labels[StrictLabel] = "false"
    /\ meta.Labels[GroupLabel] = "false"

PausedEvent == Event("Normal", "Paused")

\* the owner the pass recorded in p sets on its objects
PassOwner(p) == IF p.ctrl = QueryName THEN QueryOwner(p.key) ELSE StoreOwner(p.key)

\* the key under which the pass recorded in p syncs its i-th desired object
PassKey(p, i) == ChildKey(p.objs[i].kind, p.key[1], p.objs[i].name)

\* the loop iterations of a pass in which a call failed
Failures(plan) == {i \in DOMAIN plan : plan[i] # "ok"}

SameCounter(counter) == metrics[counter] = last.before[counter]

\* C1: in a pass of syncResources (Query or Store) that produces N desired objects
\* of which exactly M fail (owner reference or create/update), every object is
\* attempted, the N-M others are in the cluster as desired at the end of the pass,
\* a failing object is not written, the aggregate error reports M and
\* ClientErrorsTotal has grown by exactly M.
C1_PartialFailureIsolation ==
    (last.n > 0 /\ last.built) =>
        LET N == Len(last.objs)
            plan == last.inputs.plan
            M == Cardinality(Failures(plan))
        IN  /\ Len(plan) = N
            /\ Len(last.ops) = N
            /\ \A i \in 1..N :
                  /\ last.ops[i].key = PassKey(last, i)
                  /\ plan[i] = "ok" =>
                        /\ last.ops[i].op \in {"created", "updated", "unchanged"}
                        /\ last.post[PassKey(last, i)].exists
                        /\ last.post[PassKey(last, i)].content = last.objs[i].content
                        /\ last.post[PassKey(last, i)].owner = PassOwner(last)
                  /\ plan[i] # "ok" =>
                        /\ last.ops[i].op = plan[i]
                        /\ last.post[PassKey(last, i)] = last.pre[PassKey(last, i)]
            /\ last.err = (IF M > 0 THEN AggregateErr(M) ELSE NoErr)
            /\ metrics.ClientErrorsTotal[last.ctrl]
                  = last.before.ClientErrorsTotal[last.ctrl] + M

\* a Query pass over six objects whose first and third object failed, the first
\* at the owner reference and the third at the create or update
C1_Witness ==
    /\ last.n > 0 /\ last.built /\ last.ctrl = QueryName
    /\ Len(last.objs) = 6
    /\ last.inputs.plan[1] = "ownerErr"
    /\ last.inputs.plan[3] = "apiErr"
    /\ last.err = AggregateErr(2)
    /\ last.ops[6].op = "created"

\* the resource a Reconcile of the key would fetch
CurrentResource(ctrl, key) == IF ctrl = QueryName THEN queries[key] ELSE stores[key]

\* C2: if a pass for a resource returned success and neither the resource, the
\* Services nor the child objects have changed since, the next pass for the same
\* resource issues no create and no update (the cluster is left as it is, no
\* object is reported created or updated) and, when none of its calls fails, it
\* reports every object unchanged and returns success.
C2_Idempotence ==
    [][(/\ last.n > 0
        /\ last.err = NoErr
        /\ last'.n = last.n + 1
        /\ last'.ctrl = last.ctrl
        /\ last'.key = last.key
        /\ CurrentResource(last.ctrl, last.key) = last.resource
        /\ services = last.svcs
        /\ objects = last.post)
       => /\ objects' = objects
          /\ \A i \in 1..Len(last'.ops) : last'.ops[i].op \in {"unchanged"} \cup FailedOps
          /\ (/\ ~last'.inputs.getErr
              /\ ~last'.inputs.listErr
              /\ Failures(last'.inputs.plan) = {})
             => /\ last'.err = NoErr
                /\ \A i \in 1..Len(last'.ops) : last'.ops[i].op = "unchanged"]_vars

\* the second of two passes found all six objects of a Query unchanged
C2_Witness ==
    /\ last.n = 2 /\ last.built /\ last.err = NoErr
    /\ Len(last.ops) = 6
    /\ \A i \in 1..Len(last.ops) : last.ops[i].op = "unchanged"
    /\ last.pre = last.post

\* the pass recorded in p returned at the pause check
ShortCircuited(p) ==
    /\ p.events = <<PausedEvent>>
    /\ p.err = NoErr
    /\ ~p.listed /\ ~p.built /\ p.objs = <<>> /\ p.ops = <<>>
    /\ p.post = p.pre

\* C3: a pass (Query or Store) that fetched a resource whose pause flag is true
\* writes nothing, lists no Services, builds nothing, emits the one Normal event
\* Paused, leaves ClientErrorsTotal and ReconciliationsFailedTotal alone and
\* returns success; with the flag absent or false the pass does not stop at the
\* pause check.
C3_PauseShortCircuit ==
    (last.n > 0 /\ last.fetch = "ok") =>
        /\ last.resource.Paused = "true" =>
              /\ ShortCircuited(last)
              /\ SameCounter("ClientErrorsTotal")
              /\ SameCounter("ReconciliationsFailedTotal")
        /\ last.resource.Paused \in {"nil", "false"} =>
              /\ \A i \in 1..Len(last.events) : last.events[i] # PausedEvent
              /\ last.built \/ last.err # NoErr

\* a paused Query whose child objects exist from an earlier pass has been
\* reconciled
C3_Witness ==
    /\ last.n = 2 /\ last.fetch = "ok" /\ last.ctrl = QueryName
    /\ last.resource.Paused = "true"
    /\ last.events = <<PausedEvent>>
    /\ \E k \in ChildKeys : objects[k].exists

\* the listed Services that carry the base labels and a gRPC port
ValidItems(items) ==
    SelectSeq(items, LAMBDA svc : IsGrpcServiceWithLabels(svc, requiredStoreServiceLabels).ok)

\* C4: the endpoint list getStoreAPIServiceEndpoints returns has exactly one entry
\* per listed Service with a gRPC port and none, no zero-valued placeholder either,
\* for a listed Service without one; EndpointsConfigured grows once per valid
\* Service.
C4_EndpointExclusion ==
    (last.n > 0 /\ last.ctrl = QueryName /\ last.listed
        /\ last.err.kind \notin {"selector", "list"}) =>
        LET valid == ValidItems(last.items)
        IN  /\ Len(last.endpoints) = Len(valid)
            /\ \A i \in 1..Len(last.endpoints) :
                  /\ last.endpoints[i] # ZeroEndpoint
                  /\ \E j \in 1..Len(valid) :
                        /\ last.endpoints[i].ServiceName = valid[j].Name
                        /\ last.endpoints[i].Namespace = valid[j].Namespace
            /\ \A j \in 1..Len(valid) :
                  Cardinality({i \in 1..Len(last.endpoints) :
                                  /\ last.endpoints[i].ServiceName = valid[j].Name
                                  /\ last.endpoints[i].Namespace = valid[j].Namespace}) = 1
            /\ \A t \in EndpointTypes :
                  metrics.EndpointsConfigured[<<t, last.key>>]
                     = last.before.EndpointsConfigured[<<t, last.key>>]
                       + Cardinality({j \in 1..Len(valid) :
                                         getServiceTypeFromLabel(valid[j]) = t})

\* C6: a pass whose fetch returns not-found returns success without an event or
\* a write, and counts neither a client error nor a failed reconciliation.
C6_NotFoundIsTerminal ==
    (last.n > 0 /\ last.fetch = "notfound") =>
        /\ last.err = NoErr
        /\ last.events = <<>>
        /\ last.ops = <<>>
        /\ last.post = last.pre
        /\ SameCounter("ClientErrorsTotal")
        /\ SameCounter("ReconciliationsFailedTotal")

\* the object carries both base labels
HasBaseLabels(obj) ==
    \A k \in DOMAIN requiredStoreServiceLabels :
        k \in DOMAIN obj.Labels /\ obj.Labels[k] = requiredStoreServiceLabels[k]

WatchCounterGrewBy(n) ==
    metrics.ServiceWatchesReconciliationsTotal = lastWatch.before + n

\* C7: an update event of a Service reaches the map function of enqueueForService
\* only if the updated Service carries both base labels and its labels or its
\* generation differ between the old and the new object; an update that changes
\* neither runs the map function zero times and enqueues no request.
C7_UpstreamWatchFilter ==
    (lastWatch.n > 0 /\ lastWatch.event.type = "Update") =>
        LET old == lastWatch.event.ObjectOld
            new == lastWatch.event.ObjectNew
        IN  /\ lastWatch.calls # <<>> =>
                  /\ HasBaseLabels(new)
                  /\ new.Labels # old.Labels \/ new.Generation # old.Generation
            /\ (new.Labels = old.Labels /\ new.Generation = old.Generation) =>
                  /\ lastWatch.calls = <<>>
                  /\ lastWatch.enqueued = {}
                  /\ WatchCounterGrewBy(0)

\* a StoreAPI Service that a ThanosQuery selects has been updated with neither its
\* labels nor its generation changed, and nothing ran
C7_Witness ==
    /\ lastWatch.n > 0 /\ lastWatch.event.type = "Update"
    /\ lastWatch.event.ObjectNew.Labels = lastWatch.event.ObjectOld.Labels
    /\ lastWatch.event.ObjectNew.Generation = lastWatch.event.ObjectOld.Generation
    /\ lastWatch.event.ObjectNew.grpc # lastWatch.event.ObjectOld.grpc
    /\ HasBaseLabels(lastWatch.event.ObjectNew)
    /\ queries[<<"ns-a", "q1">>].exists
    /\ queries[<<"ns-a", "q1">>].StoreLabelSelector = NilSelector
    /\ lastWatch.calls = <<>>

\* the endpoint list getStoreAPIServiceEndpoints returns for a ThanosQuery over
\* the Services svcs
EndpointListFor(q, svcs) ==
    LET ep == getStoreAPIServiceEndpoints(queries[q], q[1], svcs, FALSE)
    IN  [err |-> ep.err, endpoints |-> ep.endpoints]

\* the Service of the event advertises the gRPC port, before and after
AdvertisesGrpc(e) ==
    \A o \in {e.Object, e.ObjectOld, e.ObjectNew} : o.exists => o.grpc

\* C8: every Service event (create, update, delete) that changes the endpoint list
\* getStoreAPIServiceEndpoints returns for a ThanosQuery enqueues a request for
\* that ThanosQuery; stated for a Service that advertises the gRPC port and for
\* listings of the map function that succeed.
C8_RetriggerOnRelevantChange ==
    [][\A q \in QueryKeys :
          (/\ lastWatch'.n = lastWatch.n + 1
           /\ queries[q].exists
           /\ AdvertisesGrpc(lastWatch'.event)
           /\ \A i \in 1..Len(lastWatch'.calls) : ~lastWatch'.calls[i].listErr
           /\ EndpointListFor(q, services) # EndpointListFor(q, services'))
          => Request(q) \in lastWatch'.enqueued]_vars

RequestSet(requests) == {requests[i] : i \in 1..Len(requests)}

\* the ThanosQuery resources of the namespace of obj whose effective selector
\* builds and matches the labels of obj
MatchingQueries(obj) ==
    {q \in QueryKeys :
        /\ queries[q].exists
        /\ q[1] = obj.Namespace
        /\ ~BuildLabelSelectorFrom(queries[q].StoreLabelSelector,
                                   requiredStoreServiceLabels).err
        /\ Matches(BuildLabelSelectorFrom(queries[q].StoreLabelSelector,
                                          requiredStoreServiceLabels), obj.Labels)}

\* the map function returned, for the object of call c, one request per
\* ThanosQuery of MatchingQueries and counted them
ReturnsMatchingQueries(c) ==
    /\ RequestSet(c.requests) = {Request(q) : q \in MatchingQueries(c.obj)}
    /\ Len(c.requests) = Cardinality(MatchingQueries(c.obj))
    /\ c.counted = Len(c.requests)

RECURSIVE RequestsReturned(_)
RequestsReturned(calls) ==
    IF calls = <<>> THEN 0 ELSE Len(Head(calls).requests) + RequestsReturned(Tail(calls))

\* C9 as stated: for an admitted Service the map function of enqueueForService
\* returns exactly one request per ThanosQuery of its namespace whose effective
\* selector builds and matches it, and the service-watch counter grows by the
\* number of requests returned.
C9_RouterResultSet ==
    lastWatch.n > 0 =>
        /\ \A i \in 1..Len(lastWatch.calls) :
              (HasBaseLabels(lastWatch.calls[i].obj) /\ lastWatch.calls[i].obj.grpc)
                 => ReturnsMatchingQueries(lastWatch.calls[i])
        /\ WatchCounterGrewBy(RequestsReturned(lastWatch.calls))

\* C9 amended: the same, when the listing of the ThanosQuery resources succeeds;
\* when it fails the map function returns no request and counts nothing.
C9_RouterResultSetWhenListed ==
    lastWatch.n > 0 =>
        /\ \A i \in 1..Len(lastWatch.calls) :
              LET c == lastWatch.calls[i]
              IN  (HasBaseLabels(c.obj) /\ c.obj.grpc) =>
                     /\ c.listed
                     /\ ~c.listErr => ReturnsMatchingQueries(c)
                     /\ c.listErr => c.requests = <<>> /\ c.counted = 0
        /\ WatchCounterGrewBy(RequestsReturned(lastWatch.calls))

\* for a Service labelled tier=a, the ThanosQuery with the malformed selector is
\* skipped, the next one of the namespace is returned, and the ThanosQuery of the
\* other namespace that selects tier=a is not
C9_Witness ==
    /\ lastWatch.n > 0 /\ lastWatch.event.type = "Create"
    /\ \A q \in QueryKeys : queries[q].exists
    /\ queries[<<"ns-a", "q1">>].StoreLabelSelector = BadSelector
    /\ queries[<<"ns-b", "q1">>].StoreLabelSelector = TierSelector
    /\ TierLabel \in DOMAIN lastWatch.event.Object.Labels
    /\ Len(lastWatch.calls) = 1
    /\ ~lastWatch.calls[1].listErr
    /\ lastWatch.calls[1].requests = <<Request(<<"ns-a", "q2">>)>>
    /\ WatchCounterGrewBy(1)

\* C10: for a changed Service that lacks a base label or the gRPC port the map
\* function of enqueueForService returns no request, does not list the ThanosQuery
\* resources and leaves the service-watch counter alone, whatever ThanosQuery
\* resources exist.
C10_AdmissionFilter ==
    lastWatch.n > 0 =>
        /\ \A i \in 1..Len(lastWatch.calls) :
              LET c == lastWatch.calls[i]
              IN  ~(HasBaseLabels(c.obj) /\ c.obj.grpc) =>
                     c.requests = <<>> /\ ~c.listed /\ c.counted = 0
        /\ (\A i \in 1..Len(lastWatch.calls) :
               ~(HasBaseLabels(lastWatch.calls[i].obj) /\ lastWatch.calls[i].obj.grpc))
           => WatchCounterGrewBy(0) /\ lastWatch.enqueued = {}

\* a Service with both base labels and no gRPC port was created next to a
\* ThanosQuery that selects every StoreAPI Service: the event passed the
\* predicate and the map function returned nothing without listing
C10_Witness ==
    /\ lastWatch.n > 0 /\ lastWatch.event.type = "Create" /\ lastWatch.passed
    /\ HasBaseLabels(lastWatch.event.Object) /\ ~lastWatch.event.Object.grpc
    /\ queries[<<"ns-a", "q1">>].exists
    /\ queries[<<"ns-a", "q1">>].StoreLabelSelector = NilSelector
    /\ Len(lastWatch.calls) = 1
    /\ lastWatch.calls[1].requests = <<>> /\ ~lastWatch.calls[1].listed

\* the loop iterations of the pass recorded in p that issued a create or an update
Written(p) == {i \in 1..Len(p.ops) : p.ops[i].op \in {"created", "updated"}}

\* C11: every create or update a pass issues for a namespaced desired object is
\* made on an object in the namespace of the resource that carries the owner
\* reference to the resource and no other; an object whose SetControllerReference
\* fails is one counted failure and is neither created nor updated in that pass.
C11_OwnerBeforeWrite ==
    (last.n > 0 /\ last.built) =>
        /\ \A i \in Written(last) :
              IsNamespacedResource(last.objs[i]) =>
                 /\ last.ops[i].key[2] = last.key[1]
                 /\ last.post[last.ops[i].key].owner = PassOwner(last)
                 /\ last.inputs.plan[i] # "ownerErr"
        /\ \A i \in 1..Len(last.ops) :
              last.inputs.plan[i] = "ownerErr" =>
                 /\ last.ops[i].op = "ownerErr"
                 /\ last.post[last.ops[i].key] = last.pre[last.ops[i].key]
                 /\ last.err.kind = "aggregate"
                 /\ last.err.count >= Cardinality({j \in 1..Len(last.ops) :
                                                     last.inputs.plan[j] = "ownerErr"})

\* in one pass the owner reference of the first object failed, an existing object
\* was updated and a missing one created, both owned by the resource
C11_Witness ==
    /\ last.n > 0 /\ last.built
    /\ last.inputs.plan[1] = "ownerErr"
    /\ \E i, j \in Written(last) :
          /\ last.ops[i].op = "created" /\ last.ops[j].op = "updated"
          /\ last.post[last.ops[i].key].owner = PassOwner(last)
          /\ last.post[last.ops[j].key].owner = PassOwner(last)

SyncFailedEvent == Event("Warning", "SyncFailed")

\* the positions of event e among the events of the pass recorded in p
EventsOf(p, e) == {i \in 1..Len(p.events) : p.events[i] = e}

FailedCounterGrewBy(n) ==
    metrics.ReconciliationsFailedTotal[last.ctrl]
       = last.before.ReconciliationsFailedTotal[last.ctrl] + n

\* the selector of the ThanosQuery the pass recorded in p fetched does not build
SelectorMalformed(p) ==
    BuildLabelSelectorFrom(p.resource.StoreLabelSelector, requiredStoreServiceLabels).err

\* C12: when the build of the querier fails for a ThanosQuery that is not paused
\* (its selector does not build, or the listing of the Services returns an error),
\* the pass issues no create and no update, for querier and frontend objects
\* alike, returns that error, emits the Warning event SyncFailed once and
\* increments ReconciliationsFailedTotal by exactly one.
C12_BuildFailureIsFatal ==
    (/\ last.n > 0 /\ last.ctrl = QueryName /\ last.fetch = "ok"
     /\ last.resource.Paused # "true"
     /\ SelectorMalformed(last) \/ last.inputs.listErr) =>
        /\ last.err = Err(IF SelectorMalformed(last) THEN "selector" ELSE "list")
        /\ ~last.built /\ last.objs = <<>> /\ last.ops = <<>>
        /\ last.post = last.pre
        /\ Cardinality(EventsOf(last, SyncFailedEvent)) = 1
        /\ FailedCounterGrewBy(1)

\* a ThanosQuery with a frontend whose child objects exist from an earlier pass got
\* a malformed selector, and the next pass failed at the build
C12_Witness ==
    /\ last.n = 2 /\ last.ctrl = QueryName /\ last.fetch = "ok"
    /\ last.resource.QueryFrontend
    /\ SelectorMalformed(last)
    /\ last.err = Err("selector")
    /\ \E k \in ChildKeys : objects[k].exists

\* C13: a pass for a ThanosStore that is not paused and whose StorageSize does not
\* parse returns an error, with the Warning event SyncFailed, one increment of
\* ReconciliationsFailedTotal and no object synced, and does not end in a panic.
C13_OptionParsingIsFatalOnly ==
    (/\ last.n > 0 /\ last.ctrl = StoreName /\ last.fetch = "ok"
     /\ last.resource.Paused # "true"
     /\ ~last.resource.StorageSizeParses) =>
        /\ ~last.panicked
        /\ last.err # NoErr
        /\ EventsOf(last, SyncFailedEvent) # {}
        /\ FailedCounterGrewBy(1)
        /\ last.ops = <<>> /\ last.post = last.pre

\* the child objects that the resource of the pass recorded in p owns at its end
OwnedAfter(p) == {k \in ChildKeys : p.post[k].exists /\ p.post[k].owner = PassOwner(p)}

\* the keys of the desired objects of the pass recorded in p
DesiredKeys(p) == {PassKey(p, i) : i \in 1..Len(p.objs)}

\* C14: at the end of a pass that returns success, the child objects the resource
\* owns in the cluster are exactly the desired objects computed from its current
\* spec: none that only an earlier spec produced remains.
C14_ObservedMatchesDesired ==
    (last.n > 0 /\ last.built /\ last.err = NoErr) =>
        OwnedAfter(last) = DesiredKeys(last)

\* the resource of the cluster: the one ThanosQuery or the one ThanosStore
TheQuery == <<"ns-a", "q1">>
TheStore == <<"ns-a", "st1">>

\* the resource is there, not paused, and its desired state builds
Buildable ==
    \/ /\ queries[TheQuery].exists
       /\ ~IsPausedQuery(queries[TheQuery])
       /\ ~BuildLabelSelectorFrom(queries[TheQuery].StoreLabelSelector,
                                  requiredStoreServiceLabels).err
    \/ /\ stores[TheStore].exists
       /\ ~IsPausedStore(stores[TheStore])
       /\ stores[TheStore].StorageSizeParses

\* the desired objects of the resource, from its current spec and the Services
DesiredNow ==
    IF queries[TheQuery].exists
    THEN QueryObjects(queries[TheQuery], TheQuery,
                      buildQuerier(queries[TheQuery], TheQuery, services, FALSE).objs)
    ELSE buildStore(stores[TheStore], TheStore)

OwnerNow == IF queries[TheQuery].exists THEN QueryOwner(TheQuery) ELSE StoreOwner(TheStore)

\* every desired object is in the cluster cl in its desired form, and one more
\* pass over cl whose calls succeed writes nothing
ConvergedAt(cl) ==
    /\ \A i \in 1..Len(DesiredNow) :
          LET k == ChildKey(DesiredNow[i].kind, OwnerNow[2], DesiredNow[i].name)
          IN  /\ cl[k].exists
              /\ cl[k].content = DesiredNow[i].content
              /\ cl[k].owner = OwnerNow
    /\ LET again == SyncLoop(OwnerNow, DesiredNow, [i \in 1..Len(DesiredNow) |-> "ok"], cl)
       IN  /\ again.cl = cl
           /\ \A i \in 1..Len(again.ops) : again.ops[i].op = "unchanged"

Converged == last.n > 0 /\ last.err = NoErr /\ ConvergedAt(objects)

\* C15 as stated, for a resource that is not paused: once the calls of a pass stop
\* failing (the fetch, the listing, the owner references, the creates and updates)
\* the pass returns success and leaves every desired object in its desired form,
\* so that no later pass writes.
C15_ConvergenceUnderRetry ==
    (/\ last.n > 0 /\ last.fetch = "ok"
     /\ last.resource.Paused # "true"
     /\ ~last.inputs.getErr /\ ~last.inputs.listErr
     /\ Failures(last.inputs.plan) = {}) =>
        /\ last.err = NoErr
        /\ ConvergedAt(last.post)

\* C15 amended: for a resource that is not paused and whose desired state builds,
\* retried after every pass that returns an error, with nothing changed from
\* outside and the calls failing in finitely many passes only, eventually a pass
\* has returned success, every desired object is in the cluster in its desired
\* form and a further pass writes nothing, from then on.
C15_ConvergenceWhenBuildable == <>[](Buildable => Converged)

\* a pass over six objects, one of them stale, failed at two of them, and the
\* retry brought the cluster to the desired state
C15_Witness ==
    /\ Buildable /\ Converged
    /\ last.n = 2 /\ Len(last.objs) = 6
    /\ metrics.ReconciliationsFailedTotal[QueryName] = 1
    /\ metrics.ClientErrorsTotal[QueryName] = 2
    /\ \E i \in 1..Len(last.ops) : last.ops[i].op = "updated"
    /\ \E i \in 1..Len(last.ops) : last.ops[i].op = "created"

ClientErrorsGrewBy(n) ==
    metrics.ClientErrorsTotal[last.ctrl] = last.before.ClientErrorsTotal[last.ctrl] + n

\* the pass returned the error of the fetch: one client error, the one Warning
\* event GetFailed, no pause check, no listing, no build, no write
ReturnedAtFetch ==
    /\ last.err = Err("get")
    /\ last.events = <<Event("Warning", "GetFailed")>>
    /\ ClientErrorsGrewBy(1)
    /\ ~last.listed /\ ~last.built /\ last.objs = <<>> /\ last.ops = <<>>
    /\ last.post = last.pre

\* C16: a pass (Query or Store) whose fetch fails with an error other than
\* not-found counts exactly one client error, emits the one Warning event
\* GetFailed, returns that error and does no pause check, build or write; in every
\* other pass the fetch stage counts no client error (the counter grows by the
\* failed objects of the loop only).
C16_FetchFailure ==
    last.n > 0 =>
        /\ last.fetch = "error" => ReturnedAtFetch
        /\ last.fetch # "error" => ClientErrorsGrewBy(Cardinality(Failures(last.inputs.plan)))

NoEndpointsFoundEvent == Event("Warning", "NoEndpointsFound")

\* the listing of the pass recorded in p succeeded and returned no Service
ListedNothing(p) ==
    /\ p.ctrl = QueryName /\ p.fetch = "ok" /\ p.listed
    /\ ~p.inputs.listErr
    /\ Len(p.items) = 0

\* C17: when the listing of the Services for a ThanosQuery returns none, the pass
\* emits the Warning event NoEndpointsFound once, has an empty endpoint list and
\* no discovery error, counts no endpoint, goes on to build and sync the querier
\* objects, and returns success when no call of the loop fails.
C17_ZeroServicesIsNoError ==
    (last.n > 0 /\ ListedNothing(last)) =>
        /\ Cardinality(EventsOf(last, NoEndpointsFoundEvent)) = 1
        /\ last.endpoints = <<>> /\ last.counted = <<>>
        /\ \A t \in EndpointTypes :
              metrics.EndpointsConfigured[<<t, last.key>>]
                 = last.before.EndpointsConfigured[<<t, last.key>>]
        /\ last.err.kind \in {"nil", "aggregate"}
        /\ last.built
        /\ Len(last.ops) = Len(last.objs)
        /\ \E i \in 1..Len(last.objs) :
              /\ last.objs[i].kind = "Deployment" /\ last.objs[i].name = last.key[2]
              /\ last.objs[i].content.args = <<>>
        /\ Failures(last.inputs.plan) = {} =>
              /\ last.err = NoErr
              /\ \A i \in 1..Len(last.objs) : last.post[PassKey(last, i)].exists

\* a ThanosQuery without any StoreAPI Service was reconciled: the warning was
\* emitted and its three querier objects were created
C17_Witness ==
    /\ last.n > 0 /\ ListedNothing(last)
    /\ last.err = NoErr
    /\ last.events = <<NoEndpointsFoundEvent>>
    /\ Len(last.ops) = 3
    /\ \A i \in 1..Len(last.ops) : last.ops[i].op = "created"

\* the keys of the objects at which the pass recorded in p failed
FailedKeys(p) == {p.ops[i].key : i \in {j \in 1..Len(p.ops) : p.ops[j].op \in FailedOps}}

\* C18: when a pass over N desired objects failed at the objects F and neither the
\* resource, the Services nor the child objects have changed since, the next pass
\* for the same resource creates or updates objects of F only, and every object
\* the earlier pass synced is left as it is: reported unchanged when its call
\* succeeds.
C18_RetryOnlyTheRemainder ==
    [][(/\ last.n > 0 /\ last.built
        /\ last'.n = last.n + 1
        /\ last'.ctrl = last.ctrl /\ last'.key = last.key
        /\ CurrentResource(last.ctrl, last.key) = last.resource
        /\ services = last.svcs
        /\ objects = last.post
        /\ last'.built)
       => /\ last'.objs = last.objs
          /\ \A i \in Written(last') : last'.ops[i].key \in FailedKeys(last)
          /\ \A k \in ChildKeys : k \notin FailedKeys(last) => objects'[k] = objects[k]
          /\ \A i \in 1..Len(last'.ops) :
                (last'.ops[i].key \notin FailedKeys(last) /\ last'.inputs.plan[i] = "ok")
                   => last'.ops[i].op = "unchanged"]_vars

\* the first pass failed at one of six objects; the second created that one and
\* found the five others unchanged
C18_Witness ==
    /\ last.n = 2 /\ last.built /\ last.err = NoErr /\ Len(last.ops) = 6
    /\ metrics.ReconciliationsFailedTotal[QueryName] = 1
    /\ metrics.ClientErrorsTotal[QueryName] = 1
    /\ Cardinality(Written(last)) = 1
    /\ Cardinality({i \in 1..Len(last.ops) : last.ops[i].op = "unchanged"}) = 5

\* the context of the pass recorded in p was cancelled after k objects: the calls
\* for the first k objects succeeded and every ctrl.CreateOrUpdate after them
\* returned the error of the context
CancelledAfter(p, k) ==
    /\ k < Len(p.objs)
    /\ p.inputs.plan = [i \in 1..Len(p.objs) |-> IF i <= k THEN "ok" ELSE "apiErr"]

\* C19: when the context is cancelled after k of the N desired objects have been
\* synced, those k objects are in the cluster as desired at the end of the pass,
\* none of the N-k others is created or updated, and Reconcile returns the
\* aggregate error counting N-k, with one increment of ReconciliationsFailedTotal
\* and a Warning event SyncFailed.
C19_CancellationMidBatch ==
    (last.n > 0 /\ last.built) =>
        \A k \in 0..Len(last.objs) :
            CancelledAfter(last, k) =>
                LET N == Len(last.objs)
                IN  /\ \A i \in 1..k :
                          /\ last.post[PassKey(last, i)].exists
                          /\ last.post[PassKey(last, i)].content = last.objs[i].content
                          /\ last.post[PassKey(last, i)].owner = PassOwner(last)
                    /\ \A i \in (k + 1)..N :
                          last.post[PassKey(last, i)] = last.pre[PassKey(last, i)]
                    /\ \A key \in ChildKeys : last.pre[key].exists => last.post[key].exists
                    /\ last.err.kind = "aggregate" /\ last.err.count = N - k
                    /\ ClientErrorsGrewBy(N - k)
                    /\ FailedCounterGrewBy(1)
                    /\ EventsOf(last, SyncFailedEvent) # {}

\* a Query pass over six objects was cancelled after the fourth: four objects
\* were created, the last two were not
C19_Witness ==
    /\ last.n > 0 /\ last.built /\ Len(last.objs) = 6
    /\ CancelledAfter(last, 4)
    /\ \A i \in 1..4 : last.ops[i].op = "created"
    /\ last.err.count = 2
    /\ ~last.post[PassKey(last, 6)].exists

\* the pass recorded in last returned a non-nil error to its caller
ReturnedError == last.err # NoErr /\ ~last.panicked

FailureEvents == {Event("Warning", "GetFailed"), Event("Warning", "SyncFailed")}

\* C20: a pass returns a non-nil error if and only if it incremented
\* ReconciliationsFailedTotal exactly once and emitted a Warning event GetFailed
\* or SyncFailed; a pass that returns no error leaves that counter alone; every
\* pass increments ReconciliationsTotal exactly once; the failure counter never
\* exceeds the total counter.
C20_ErrorAndObservabilityAgree ==
    /\ last.n > 0 =>
          /\ ReturnedError <=>
                (/\ FailedCounterGrewBy(1)
                 /\ \E i \in 1..Len(last.events) : last.events[i] \in FailureEvents)
          /\ ~ReturnedError => FailedCounterGrewBy(0)
          /\ metrics.ReconciliationsTotal[last.ctrl]
                = last.before.ReconciliationsTotal[last.ctrl] + 1
          /\ \A c \in {QueryName, StoreName} \ {last.ctrl} :
                /\ metrics.ReconciliationsTotal[c] = last.before.ReconciliationsTotal[c]
                /\ metrics.ReconciliationsFailedTotal[c]
                      = last.before.ReconciliationsFailedTotal[c]
    /\ \A c \in {QueryName, StoreName} :
          metrics.ReconciliationsFailedTotal[c] <= metrics.ReconciliationsTotal[c]

\* of two passes for a ThanosStore the first failed at the fetch and the second
\* returned success: two reconciliations, one of them failed
C20_Witness ==
    /\ last.n = 2 /\ last.ctrl = StoreName /\ last.err = NoErr /\ last.built
    /\ metrics.ReconciliationsTotal[StoreName] = 2
    /\ metrics.ReconciliationsFailedTotal[StoreName] = 1
    /\ metrics.ClientErrorsTotal[StoreName] = 1

----------------------------------------------------------------------------
(* C21 *)

\* Service event number v has been routed to key while a pass for key that had
\* listed the Services before the event is running
RoutedInFlight(key, v) ==
    /\ lastWatch.n = v
    /\ Request(key) \in lastWatch.enqueued
    /\ \E w \in Workers :
          /\ inflight[w].busy
          /\ inflight[w].key = key
          /\ inflight[w].b.ep.listed
          /\ inflight[w].seen < v

\* a pass for key has built the desired objects from a listing of the Services made
\* after Service event number v
ReflectedIn(key, v) ==
    /\ last.ctrl = QueryName
    /\ last.key = key
    /\ last.built
    /\ last.seen >= v

\* no two workers run a pass for the same request
NoOverlap ==
    \A w1, w2 \in Workers :
       (w1 # w2 /\ inflight[w1].busy /\ inflight[w2].busy)
          => inflight[w1].key # inflight[w2].key

----------------------------------------------------------------------------
(* C22 *)

\* the Services of the cluster with the Service obj among them
ClusterWith(obj) == [services EXCEPT ![<<obj.Namespace, obj.Name>>] = obj]

\* a listing of getStoreAPIServiceEndpoints for the ThanosQuery q over a cluster
\* that contains obj yields an endpoint named after obj
DiscoversEndpointFor(q, obj) ==
    LET ep == getStoreAPIServiceEndpoints(queries[q], q[1], ClusterWith(obj), FALSE)
    IN  \E i \in 1..Len(ep.endpoints) :
           /\ ep.endpoints[i].ServiceName = obj.Name
           /\ ep.endpoints[i].Namespace = obj.Namespace

SelectorBuilds(q) ==
    ~BuildLabelSelectorFrom(queries[q].StoreLabelSelector, requiredStoreServiceLabels).err

\* the call c of the map function returned a request for exactly the ThanosQuery
\* resources of the namespace whose discovery finds the Service
AgreesWithDiscoverer(c) ==
    \A q \in QueryKeys :
       (queries[q].exists /\ q[1] = c.obj.Namespace /\ SelectorBuilds(q))
          => (Request(q) \in RequestSet(c.requests) <=> DiscoversEndpointFor(q, c.obj))

\* C22: Router and Discoverer agree. For every Service S the map function of
\* enqueueForService is called with, and every ThanosQuery Q of the namespace of S
\* whose selector builds, the requests returned contain Q if and only if a listing
\* of getStoreAPIServiceEndpoints for Q over a cluster containing S yields an
\* endpoint named after S.
C22_RouterDiscovererAgree ==
    lastWatch.n > 0 =>
        \A i \in 1..Len(lastWatch.calls) : AgreesWithDiscoverer(lastWatch.calls[i])

\* C22 amended: the same, when the map function's listing of the ThanosQuery
\* resources succeeds; when that listing fails the map function returns no
\* request, whatever the discovery finds.
C22_RouterDiscovererAgreeWhenListed ==
    lastWatch.n > 0 =>
        \A i \in 1..Len(lastWatch.calls) :
           LET c == lastWatch.calls[i]
           IN  /\ ~c.listErr => AgreesWithDiscoverer(c)
               /\ c.listErr => c.requests = <<>>

\* a Service with the base labels and the gRPC port: the ThanosQuery with the nil
\* selector is returned and discovers it, the one that selects tier=a is not
\* returned and does not discover it
C22_Witness ==
    /\ lastWatch.n > 0 /\ lastWatch.event.type = "Create"
    /\ queries[<<"ns-a", "q1">>].exists /\ queries[<<"ns-a", "q2">>].exists
    /\ queries[<<"ns-a", "q1">>].StoreLabelSelector = NilSelector
    /\ queries[<<"ns-a", "q2">>].StoreLabelSelector = TierSelector
    /\ Len(lastWatch.calls) = 1
    /\ ~lastWatch.calls[1].listErr
    /\ lastWatch.calls[1].requests = <<Request(<<"ns-a", "q1">>)>>
    /\ DiscoversEndpointFor(<<"ns-a", "q1">>, lastWatch.event.Object)
    /\ ~DiscoversEndpointFor(<<"ns-a", "q2">>, lastWatch.event.Object)

----------------------------------------------------------------------------
(* C23 *)

\* the child objects the pass recorded in p created or updated that another
\* resource instance had produced before
TakenFromAnother(p) ==
    {p.ops[i].key : i \in {j \in Written(p) :
                              /\ p.pre[p.ops[j].key].exists
                              /\ p.pre[p.ops[j].key].owner # PassOwner(p)}}

\* C23: disjoint children across instances. The child objects (kind, namespace,
\* name) a pass creates or updates are never objects that a pass of another
\* resource instance of the namespace has produced: no pass overwrites or takes
\* over a child of another instance, also for a ThanosQuery q with a frontend next
\* to a ThanosQuery q-frontend, and for a ThanosQuery and a ThanosStore of one name.
C23_DisjointChildren ==
    last.n > 0 => TakenFromAnother(last) = {}

====
